---- MODULE Spec2Model ----
(***************************************************************************)
(* Deribit trading system: the downstream broadcast server                 *)
(* (WebSocketServer), the order and book store (OrderManager) and the      *)
(* upstream session (ApiClient) as state machines.                         *)
(*                                                                         *)
(* Strings that the code takes apart (channel names) are sequences of      *)
(* chunks: "orderbook.BTC-PERPETUAL" is <<"orderbook.", "BTC-PERPETUAL">>, *)
(* the first chunk standing for the ten characters of "orderbook.".        *)
(* Doubles are integers; the code only compares them with 0.               *)
(***************************************************************************)
EXTENDS Integers, Sequences, FiniteSets, TLC

VARIABLES
    connections_,              \* WebSocketServer::connections_
    channel_subscriptions_,    \* channel -> set of connection handles
    connection_subscriptions_, \* connection handle -> set of channels
    orderbooks_,               \* OrderManager::orderbooks_ (instrument -> book)
    open_orders_,              \* OrderManager::open_orders_ (order_id -> Order)
    positions_,                \* OrderManager::positions_ (instrument -> Position)
    broken,                    \* the connections on which server_->send throws
    server_,                   \* WebSocketServer::server_ is set (initialize has run)
    start_times_,              \* LatencyTracker::start_times_ (id -> time point)
    next_id_,                  \* LatencyTracker::next_id_
    metrics_,                  \* LatencyTracker::metrics_
    hrnow,                     \* std::chrono::high_resolution_clock::now()
    completed,                 \* history: start()/end(id) pairs completed since the last reset
    subscriptions_mutex_,      \* the holder of WebSocketServer::subscriptions_mutex_, if any
    auth_mutex_,               \* the holder of ApiClient::auth_mutex_, if any
    caller,                    \* thread -> its position in the call it is making
    client_running_,           \* ApiClient::running_
    worker_pc,                 \* the position of the dispatch worker in process_message_queue
    websocket_thread_,         \* the state of ApiClient::websocket_thread_
    held,                      \* mutex -> its holder, if any (the mutexes named in Mutexes)
    authenticated_,            \* ApiClient::authenticated_
    credentials_,              \* ApiClient::credentials_
    now,                       \* std::chrono::system_clock::now()
    websocket_connected_,      \* ApiClient::websocket_connected_
    channel_callbacks_,        \* ApiClient::channel_callbacks_ (the channels with a callback)
    message_queue_,            \* ApiClient::message_queue_
    writer,                    \* the subscribe/unsubscribe that holds websocket_mutex_
    worker,                    \* process_message_queue: the message popped, if any
    received,                  \* history: the channel of every push frame, as received
    dispatched,                \* history: the callback invocations, in order
    running_,                  \* TradingSystem::running_
    server_running_,           \* WebSocketServer::running_
    stopper,                   \* thread -> its position in TradingSystem::stop
    waiter,                    \* the position of the thread in TradingSystem::wait
    starts,                    \* history: successful start() calls
    disconnects,               \* history: upstream disconnects since the last start
    serverStops,               \* history: server_->stop() calls since the last start
    issued,                    \* history: (peer, channel) subscribe requests still in force
    lastSent,                  \* frames handed to server_->send by the last handler, per peer
    lastReqs,                  \* upstream requests made by the last operation
    last                       \* the last operation, its arguments and its return value

serverVars == <<connections_, channel_subscriptions_, connection_subscriptions_,
                issued, lastSent>>
sessionVars == <<authenticated_, credentials_, now>>
upstreamVars == <<websocket_connected_, channel_callbacks_, message_queue_, writer,
                  worker, received, dispatched>>
systemVars == <<running_, server_running_, stopper, waiter, starts, disconnects,
                serverStops>>

trackerVars == <<start_times_, next_id_, metrics_, hrnow, completed>>
lockVars == <<subscriptions_mutex_, auth_mutex_, caller>>
clientVars == <<client_running_, worker_pc, websocket_thread_, held>>
extraVars == <<broken, server_, trackerVars, lockVars, clientVars>>

vars == <<serverVars, sessionVars, upstreamVars, systemVars, extraVars, orderbooks_,
          open_orders_, positions_, lastReqs, last>>

----------------------------------------------------------------------------
(* Bounds and input alphabets *)

MaxConn == 2

\* threads that call TradingSystem::stop
MaxStoppers == 2
Threads == 1..MaxStoppers

Conns == 1..MaxConn

BTC == <<"BTC-PERPETUAL">>
ETH == <<"ETH-PERPETUAL">>
EmptyString == <<>>
OrderbookPrefix == <<"orderbook.">>

ChanBook == OrderbookPrefix \o BTC
ChanTrades == <<"trades">>
Channels == {ChanBook, ChanTrades}

Payloads == {"m1"}

----------------------------------------------------------------------------
(* std::map as a function with a finite domain *)

MapPut(m, k, v) == [x \in (DOMAIN m) \cup {k} |-> IF x = k THEN v ELSE m[x]]
MapErase(m, k) == [x \in (DOMAIN m) \ {k} |-> m[x]]
EmptyMap == [x \in {} |-> {}]

NoSent == [c \in Conns |-> <<>>]

\* server_->send(hdl, message): the frame is handed to the transport for hdl
send(out, hdl, frame) == [out EXCEPT ![hdl] = Append(@, frame)]

----------------------------------------------------------------------------
(* OrderManager::get_orderbook and the venue's public/get_order_book       *)

\* a default-constructed OrderBook with instrument_name set
EmptyBook(instrument) ==
    [instrument_name |-> instrument, timestamp |-> "", bids |-> <<>>, asks |-> <<>>]

VenueBook1 == [timestamp |-> "1", bids |-> << <<10000, 1>> >>, asks |-> << <<10100, 1>> >>]
VenueBook2 == [timestamp |-> "2", bids |-> << <<10050, 2>>, <<10000, 1>> >>, asks |-> <<>>]

\* replies of the venue to public/get_order_book:
\*   ok            a well-formed result
\*   error         transport failure or a JSON-RPC error object
\*   bad_timestamp result.timestamp is not a string (the first conversion throws)
\*   bad_asks      timestamp and bids parse, the first ask entry does not
BookReplies ==
    {[kind |-> "ok", book |-> VenueBook1], [kind |-> "ok", book |-> VenueBook2],
     [kind |-> "error", book |-> VenueBook1],
     [kind |-> "bad_timestamp", book |-> VenueBook1],
     [kind |-> "bad_asks", book |-> VenueBook1]}

DefaultDepth == 10

\* get_orderbook without its look into the cache
get_orderbook_ignoresCache(cache, instrument_name, depth, reply) ==
    IF instrument_name = EmptyString \/ depth <= 0
    THEN [ret |-> EmptyBook(instrument_name), cache |-> cache, reqs |-> <<>>]
    ELSE LET req == [method |-> "public/get_order_book",
                     instrument_name |-> instrument_name, depth |-> depth]
             parsed == [instrument_name |-> instrument_name,
                        timestamp |-> reply.book.timestamp,
                        bids |-> reply.book.bids, asks |-> reply.book.asks]
         IN IF reply.kind = "ok"
            THEN [ret |-> parsed, cache |-> MapPut(cache, instrument_name, parsed),
                  reqs |-> <<req>>]
            ELSE [ret |-> EmptyBook(instrument_name), cache |-> cache, reqs |-> <<req>>]

\* returns the book, the new cache and the upstream requests made
get_orderbook(cache, instrument_name, depth, reply) ==
    IF instrument_name = EmptyString \/ depth <= 0
    THEN [ret |-> EmptyBook(instrument_name), cache |-> cache, reqs |-> <<>>]
    ELSE IF instrument_name \in DOMAIN cache
    THEN [ret |-> cache[instrument_name], cache |-> cache, reqs |-> <<>>]
    ELSE LET req == [method |-> "public/get_order_book",
                     instrument_name |-> instrument_name, depth |-> depth]
             parsed == [instrument_name |-> instrument_name,
                        timestamp |-> reply.book.timestamp,
                        bids |-> reply.book.bids, asks |-> reply.book.asks]
         IN CASE reply.kind = "ok" ->
                   [ret |-> parsed, cache |-> MapPut(cache, instrument_name, parsed),
                    reqs |-> <<req>>]
              [] reply.kind = "bad_asks" ->
                   [ret |-> [parsed EXCEPT !.asks = <<>>], cache |-> cache, reqs |-> <<req>>]
              [] OTHER ->
                   [ret |-> EmptyBook(instrument_name), cache |-> cache, reqs |-> <<req>>]

----------------------------------------------------------------------------
(* WebSocketServer: subscription tables.  tabs is the pair of indices      *)
(* guarded by subscriptions_mutex_.                                        *)

Tabs(chan, conn) == [chan |-> chan, conn |-> conn]

subscribe_client(tabs, hdl, channel) ==
    LET chanSet == IF channel \in DOMAIN tabs.chan THEN tabs.chan[channel] ELSE {}
        connSet == IF hdl \in DOMAIN tabs.conn THEN tabs.conn[hdl] ELSE {}
    IN Tabs(MapPut(tabs.chan, channel, chanSet \cup {hdl}),
            MapPut(tabs.conn, hdl, connSet \cup {channel}))

\* erase hdl from one channel's set and drop the channel when it becomes empty
EraseFromChannel(chan, hdl, channel) ==
    IF channel \in DOMAIN chan
    THEN IF chan[channel] \ {hdl} = {}
         THEN MapErase(chan, channel)
         ELSE MapPut(chan, channel, chan[channel] \ {hdl})
    ELSE chan

\* mutant: the forward index is left alone
unsubscribe_client_forgetsChannelIndex(tabs, hdl, channel) ==
    LET conn2 == IF hdl \in DOMAIN tabs.conn
                 THEN IF tabs.conn[hdl] \ {channel} = {}
                      THEN MapErase(tabs.conn, hdl)
                      ELSE MapPut(tabs.conn, hdl, tabs.conn[hdl] \ {channel})
                 ELSE tabs.conn
    IN Tabs(tabs.chan, conn2)

\* mutant: an emptied inverse-index entry is kept
unsubscribe_client_keepsEmptyEntry(tabs, hdl, channel) ==
    LET chan2 == EraseFromChannel(tabs.chan, hdl, channel)
        conn2 == IF hdl \in DOMAIN tabs.conn
                 THEN MapPut(tabs.conn, hdl, tabs.conn[hdl] \ {channel})
                 ELSE tabs.conn
    IN Tabs(chan2, conn2)

\* mutant: an emptied channel entry is kept
unsubscribe_client_keepsEmptyChannel(tabs, hdl, channel) ==
    LET chan2 == IF channel \in DOMAIN tabs.chan
                 THEN MapPut(tabs.chan, channel, tabs.chan[channel] \ {hdl})
                 ELSE tabs.chan
        conn2 == IF hdl \in DOMAIN tabs.conn
                 THEN IF tabs.conn[hdl] \ {channel} = {}
                      THEN MapErase(tabs.conn, hdl)
                      ELSE MapPut(tabs.conn, hdl, tabs.conn[hdl] \ {channel})
                 ELSE tabs.conn
    IN Tabs(chan2, conn2)

unsubscribe_client(tabs, hdl, channel) ==
    LET chan2 == EraseFromChannel(tabs.chan, hdl, channel)
        conn2 == IF hdl \in DOMAIN tabs.conn
                 THEN IF tabs.conn[hdl] \ {channel} = {}
                      THEN MapErase(tabs.conn, hdl)
                      ELSE MapPut(tabs.conn, hdl, tabs.conn[hdl] \ {channel})
                 ELSE tabs.conn
    IN Tabs(chan2, conn2)

\* the loop of unsubscribe_all over the copied channel set
RECURSIVE EraseFromChannels(_, _, _)
EraseFromChannels(chan, hdl, channels) ==
    IF channels = {} THEN chan
    ELSE LET channel == CHOOSE k \in channels : TRUE
         IN EraseFromChannels(EraseFromChannel(chan, hdl, channel), hdl,
                              channels \ {channel})

\* mutant: only the inverse-index entry is dropped
unsubscribe_all_skipsChannels(tabs, hdl) ==
    IF hdl \in DOMAIN tabs.conn
    THEN Tabs(tabs.chan, MapErase(tabs.conn, hdl))
    ELSE tabs

\* mutant: emptied channel entries are kept
unsubscribe_all_keepsEmptyChannels(tabs, hdl) ==
    IF hdl \in DOMAIN tabs.conn
    THEN Tabs([k \in DOMAIN tabs.chan |->
                  IF k \in tabs.conn[hdl] THEN tabs.chan[k] \ {hdl} ELSE tabs.chan[k]],
              MapErase(tabs.conn, hdl))
    ELSE tabs

unsubscribe_all(tabs, hdl) ==
    IF hdl \in DOMAIN tabs.conn
    THEN Tabs(EraseFromChannels(tabs.chan, hdl, tabs.conn[hdl]),
              MapErase(tabs.conn, hdl))
    ELSE tabs

----------------------------------------------------------------------------
(* WebSocketServer: outbound primitives *)

broadcast_to_channel(chan, out, channel, message) ==
    IF channel \in DOMAIN chan
    THEN [c \in Conns |-> IF c \in chan[channel] THEN Append(out[c], message) ELSE out[c]]
    ELSE out

OrderbookFrame(instrument_name, orderbook) ==
    [type |-> "orderbook", instrument_name |-> instrument_name,
     timestamp |-> orderbook.timestamp, bids |-> orderbook.bids, asks |-> orderbook.asks]

handle_orderbook_update(chan, out, instrument_name, orderbook) ==
    broadcast_to_channel(chan, out, OrderbookPrefix \o instrument_name,
                         OrderbookFrame(instrument_name, orderbook))

----------------------------------------------------------------------------
(* WebSocketServer: inbound frames.  A frame is described by what          *)
(* json::parse and the accessors make of it.                               *)

Frame(json, object, hasType, typeIsString, type, hasChannel, channelIsString, channel) ==
    [json |-> json, object |-> object, hasType |-> hasType,
     typeIsString |-> typeIsString, type |-> type, hasChannel |-> hasChannel,
     channelIsString |-> channelIsString, channel |-> channel]

NotJson     == Frame(FALSE, FALSE, FALSE, FALSE, "", FALSE, FALSE, EmptyString)
NotObject   == Frame(TRUE, FALSE, FALSE, FALSE, "", FALSE, FALSE, EmptyString)
NoType      == Frame(TRUE, TRUE, FALSE, FALSE, "", TRUE, TRUE, ChanBook)
TypeNotStr  == Frame(TRUE, TRUE, TRUE, FALSE, "", TRUE, TRUE, ChanBook)
UnknownType == Frame(TRUE, TRUE, TRUE, TRUE, "ping", TRUE, TRUE, ChanBook)
NoChannel(type)      == Frame(TRUE, TRUE, TRUE, TRUE, type, FALSE, FALSE, EmptyString)
ChannelNotStr(type)  == Frame(TRUE, TRUE, TRUE, TRUE, type, TRUE, FALSE, EmptyString)
Request(type, channel) == Frame(TRUE, TRUE, TRUE, TRUE, type, TRUE, TRUE, channel)

RequestTypes == {"subscribe", "unsubscribe"}

Frames ==
    {NotJson, NotObject, NoType, TypeNotStr, UnknownType}
    \cup {NoChannel(t) : t \in RequestTypes}
    \cup {ChannelNotStr(t) : t \in RequestTypes}
    \cup {Request(t, k) : t \in RequestTypes, k \in Channels}

\* a subscribe or unsubscribe request with a string channel
WellFormed(message, type) == \E k \in Channels : message = Request(type, k)

\* request.contains(key)
contains(request, key) ==
    /\ request.object
    /\ IF key = "type" THEN request.hasType ELSE request.hasChannel

\* the state a handler works on: tables, frames sent, book cache, upstream requests
Work(tabs, out, cache, reqs) == [tabs |-> tabs, out |-> out, cache |-> cache, reqs |-> reqs]

\* a handler's outcome: exc is "none", "invalid_argument" or "json"
Outcome(exc, what, w) == [exc |-> exc, what |-> what, w |-> w]

\* channel.substr(0, 10) == "orderbook."
HasOrderbookPrefix(channel) == Len(channel) >= 1 /\ channel[1] = "orderbook."

\* mutant: the snapshot is fanned out before the acknowledgement is sent
handle_subscribe_request_snapshotFirst(w, hdl, request, reply) ==
    IF ~contains(request, "channel")
    THEN Outcome("invalid_argument", <<"Subscribe message missing 'channel' field">>, w)
    ELSE IF ~request.channelIsString
    THEN Outcome("json", <<"type must be string">>, w)
    ELSE LET channel == request.channel
             tabs2 == subscribe_client(w.tabs, hdl, channel)
             ack == [type |-> "subscribed", channel |-> channel]
         IN IF HasOrderbookPrefix(channel)
            THEN LET instrument_name == Tail(channel)
                     got == get_orderbook(w.cache, instrument_name, DefaultDepth, reply)
                 IN Outcome("none", <<>>,
                        Work(tabs2,
                             send(handle_orderbook_update(tabs2.chan, w.out,
                                                          instrument_name, got.ret),
                                  hdl, ack),
                             got.cache, w.reqs \o got.reqs))
            ELSE Outcome("none", <<>>, Work(tabs2, send(w.out, hdl, ack), w.cache, w.reqs))

handle_subscribe_request(w, hdl, request, reply) ==
    IF ~contains(request, "channel")
    THEN Outcome("invalid_argument", <<"Subscribe message missing 'channel' field">>, w)
    ELSE IF ~request.channelIsString
    THEN Outcome("json", <<"type must be string">>, w)
    ELSE LET channel == request.channel
             tabs2 == subscribe_client(w.tabs, hdl, channel)
             out2 == send(w.out, hdl, [type |-> "subscribed", channel |-> channel])
         IN IF HasOrderbookPrefix(channel)
            THEN LET instrument_name == Tail(channel)
                     got == get_orderbook(w.cache, instrument_name, DefaultDepth, reply)
                 IN Outcome("none", <<>>,
                        Work(tabs2,
                             handle_orderbook_update(tabs2.chan, out2, instrument_name, got.ret),
                             got.cache, w.reqs \o got.reqs))
            ELSE Outcome("none", <<>>, Work(tabs2, out2, w.cache, w.reqs))

\* handle_unsubscribe_request that drops the book of an orderbook channel
handle_unsubscribe_request_dropsBook(w, hdl, request) ==
    IF ~contains(request, "channel")
    THEN Outcome("invalid_argument", <<"Unsubscribe message missing 'channel' field">>, w)
    ELSE IF ~request.channelIsString
    THEN Outcome("json", <<"type must be string">>, w)
    ELSE LET channel == request.channel
             tabs2 == unsubscribe_client(w.tabs, hdl, channel)
             out2 == send(w.out, hdl, [type |-> "unsubscribed", channel |-> channel])
             cache2 == IF HasOrderbookPrefix(channel)
                       THEN MapErase(w.cache, Tail(channel)) ELSE w.cache
         IN Outcome("none", <<>>, Work(tabs2, out2, cache2, w.reqs))

handle_unsubscribe_request(w, hdl, request) ==
    IF ~contains(request, "channel")
    THEN Outcome("invalid_argument", <<"Unsubscribe message missing 'channel' field">>, w)
    ELSE IF ~request.channelIsString
    THEN Outcome("json", <<"type must be string">>, w)
    ELSE LET channel == request.channel
             tabs2 == unsubscribe_client(w.tabs, hdl, channel)
             out2 == send(w.out, hdl, [type |-> "unsubscribed", channel |-> channel])
         IN Outcome("none", <<>>, Work(tabs2, out2, w.cache, w.reqs))

\* mutant: the json::exception is swallowed
Rethrow_swallowsJsonError(o) ==
    IF o.exc = "json" THEN Outcome("none", <<>>, o.w) ELSE o

\* json::exception is caught and rethrown as invalid_argument("Invalid JSON: ...")
Rethrow(o) ==
    IF o.exc = "json"
    THEN Outcome("invalid_argument", <<"Invalid JSON: ">> \o o.what, o.w)
    ELSE o

process_message(w, hdl, message, reply) ==
    Rethrow(
        IF ~message.json THEN Outcome("json", <<"parse error">>, w)
        ELSE IF ~contains(message, "type")
        THEN Outcome("invalid_argument", <<"Message missing 'type' field">>, w)
        ELSE IF ~message.typeIsString THEN Outcome("json", <<"type must be string">>, w)
        ELSE IF message.type = "subscribe"
        THEN handle_subscribe_request(w, hdl, message, reply)
        ELSE IF message.type = "unsubscribe"
        THEN handle_unsubscribe_request(w, hdl, message)
        ELSE Outcome("invalid_argument", <<"Unknown message type: ", message.type>>, w))

\* on_message: process, and answer an exception with one error frame
on_message(w, hdl, message, reply) ==
    LET o == process_message(w, hdl, message, reply)
    IN IF o.exc = "none" THEN o.w
       ELSE [o.w EXCEPT !.out =
                send(o.w.out, hdl,
                     [type |-> "error",
                      message |-> <<"Error processing message: ">> \o o.what])]

----------------------------------------------------------------------------
(* WebSocketServer: the handlers as actions *)

CurrentTabs == Tabs(channel_subscriptions_, connection_subscriptions_)

WelcomeFrame ==
    [type |-> "welcome", message |-> <<"Welcome to Deribit Trading System WebSocket Server">>]

OnOpen(hdl) ==
    /\ hdl \notin connections_
    /\ connections_' = connections_ \cup {hdl}
    /\ lastSent' = send(NoSent, hdl, WelcomeFrame)
    /\ lastReqs' = <<>>
    /\ last' = [op |-> "on_open", hdl |-> hdl, pre |-> CurrentTabs]
    /\ UNCHANGED <<positions_, extraVars, upstreamVars, systemVars, channel_subscriptions_, connection_subscriptions_, issued,
                   orderbooks_, open_orders_, sessionVars>>

OnClose(hdl) ==
    /\ hdl \in connections_
    /\ connections_' = connections_ \ {hdl}
    /\ LET tabs2 == unsubscribe_all(CurrentTabs, hdl)
       IN /\ channel_subscriptions_' = tabs2.chan
          /\ connection_subscriptions_' = tabs2.conn
    /\ issued' = {e \in issued : e[1] # hdl}
    /\ lastSent' = NoSent
    /\ lastReqs' = <<>>
    /\ last' = [op |-> "on_close", hdl |-> hdl, pre |-> CurrentTabs]
    /\ UNCHANGED <<positions_, extraVars, upstreamVars, systemVars, orderbooks_, open_orders_, sessionVars>>

\* which (peer, channel) requests are in force after a well-formed request
Issue(set, hdl, message) ==
    IF message.json /\ contains(message, "type") /\ message.typeIsString
       /\ message.type \in RequestTypes
       /\ contains(message, "channel") /\ message.channelIsString
    THEN IF message.type = "subscribe"
         THEN set \cup {<<hdl, message.channel>>}
         ELSE set \ {<<hdl, message.channel>>}
    ELSE set

\* history: when this frame is unsubscribe(k) and the frame handled just before
\* it was subscribe(k) from the same peer, the tables as they were before that
\* subscribe
BeforeSubscribe(hdl, message) ==
    IF /\ last.op = "on_message"
       /\ last.hdl = hdl
       /\ \E k \in Channels : /\ last.message = Request("subscribe", k)
                              /\ message = Request("unsubscribe", k)
    THEN <<last.pre>>
    ELSE <<>>

OnMessage(hdl, message, reply) ==
    /\ hdl \in connections_
    /\ LET w == on_message(Work(CurrentTabs, NoSent, orderbooks_, <<>>), hdl, message, reply)
       IN /\ channel_subscriptions_' = w.tabs.chan
          /\ connection_subscriptions_' = w.tabs.conn
          /\ lastSent' = w.out
          /\ orderbooks_' = w.cache
          /\ lastReqs' = w.reqs
    /\ issued' = Issue(issued, hdl, message)
    /\ last' = [op |-> "on_message", hdl |-> hdl, message |-> message, pre |-> CurrentTabs,
                before |-> BeforeSubscribe(hdl, message)]
    /\ UNCHANGED <<positions_, extraVars, upstreamVars, systemVars, connections_, open_orders_, sessionVars>>

BroadcastToChannel(channel, payload) ==
    /\ lastSent' = broadcast_to_channel(channel_subscriptions_, NoSent, channel,
                                        [type |-> "text", payload |-> payload])
    /\ lastReqs' = <<>>
    /\ last' = [op |-> "broadcast_to_channel", channel |-> channel,
                payload |-> payload, pre |-> CurrentTabs]
    /\ UNCHANGED <<positions_, extraVars, upstreamVars, systemVars, connections_, channel_subscriptions_, connection_subscriptions_,
                   issued, orderbooks_, open_orders_, sessionVars>>

\* a direct call of OrderManager::get_orderbook
BookInstruments == {EmptyString, BTC, ETH}
Depths == {0, 1, DefaultDepth}
BookError == [kind |-> "error", book |-> VenueBook1]

GetOrderbook(instrument_name, depth, reply) ==
    /\ LET r == get_orderbook(orderbooks_, instrument_name, depth, reply)
       IN /\ orderbooks_' = r.cache
          /\ lastReqs' = r.reqs
          /\ last' = [op |-> "get_orderbook", instrument_name |-> instrument_name,
                      depth |-> depth, reply |-> reply.kind, ret |-> r.ret]
    /\ lastSent' = NoSent
    /\ UNCHANGED <<positions_, extraVars, upstreamVars, systemVars, connections_, channel_subscriptions_, connection_subscriptions_,
                   issued, open_orders_, sessionVars>>

\* the venue replies only to a get_orderbook that asks it
BookRepliesConsumed(instrument_name, depth) ==
    IF get_orderbook(orderbooks_, instrument_name, depth, BookError).reqs = <<>>
    THEN {BookError}
    ELSE BookReplies

\* a book push of the venue: complete is false when a field that
\* TradingSystem::handle_orderbook_update converts is missing or ill-typed
BookPushes ==
    {[complete |-> c, instrument_name |-> i, book |-> b] :
        c \in BOOLEAN, i \in {BTC}, b \in {VenueBook1, VenueBook2}}

\* TradingSystem::handle_orderbook_update that also stores the book
TradingSystem_handle_orderbook_update_storesBook(chan, out, cache, update) ==
    IF ~update.complete
    THEN [out |-> out, cache |-> cache]
    ELSE LET orderbook == [instrument_name |-> update.instrument_name,
                           timestamp |-> update.book.timestamp,
                           bids |-> update.book.bids, asks |-> update.book.asks]
         IN [out |-> handle_orderbook_update(chan, out, update.instrument_name, orderbook),
             cache |-> MapPut(cache, update.instrument_name, orderbook)]

\* TradingSystem::handle_orderbook_update: returns the frames sent and the
\* book cache
TradingSystem_handle_orderbook_update(chan, out, cache, update) ==
    IF ~update.complete
    THEN [out |-> out, cache |-> cache]
    ELSE LET orderbook == [instrument_name |-> update.instrument_name,
                           timestamp |-> update.book.timestamp,
                           bids |-> update.book.bids, asks |-> update.book.asks]
         IN [out |-> handle_orderbook_update(chan, out, update.instrument_name, orderbook),
             cache |-> cache]

\* the dispatch worker calls the coordinator's callback with a book push
PushOrderbook(update) ==
    /\ LET r == TradingSystem_handle_orderbook_update(channel_subscriptions_, NoSent,
                                                      orderbooks_, update)
       IN /\ lastSent' = r.out
          /\ orderbooks_' = r.cache
    /\ lastReqs' = <<>>
    /\ last' = [op |-> "push_orderbook", update |-> update, pre |-> CurrentTabs]
    /\ UNCHANGED <<connections_, channel_subscriptions_, connection_subscriptions_,
                   issued, open_orders_, positions_, extraVars, upstreamVars, systemVars,
                   sessionVars>>

\* the venue's reply matters only to a frame whose handling reaches the venue
RepliesConsumed(message) ==
    IF /\ WellFormed(message, "subscribe")
       /\ HasOrderbookPrefix(message.channel)
       /\ Tail(message.channel) \notin DOMAIN orderbooks_
    THEN BookReplies
    ELSE {BookError}

\* std::chrono::nanoseconds::max() and ::min(), in the model's time unit
NsMax == 1000
NsMin == -1000

\* a default-constructed LatencyMetric
NoMetrics ==
    [min_latency |-> NsMax, max_latency |-> NsMin, total_latency |-> 0, count |-> 0,
     samples |-> <<>>]

\* the mutexes whose holder is kept in held
Mutexes ==
    {"PerformanceMonitor::mutex_", "LatencyTracker::mutex_", "orderbooks_mutex_",
     "orders_mutex_", "websocket_mutex_", "queue_mutex_"}

\* a thread that is making no call
Idle == [op |-> "none", pc |-> "idle"]

NoCredentials == [access_token |-> "", refresh_token |-> "", token_expiry |-> 0]

Init ==
    /\ connections_ = {}
    /\ channel_subscriptions_ = EmptyMap
    /\ connection_subscriptions_ = EmptyMap
    /\ orderbooks_ = EmptyMap
    /\ open_orders_ = EmptyMap
    /\ positions_ = EmptyMap
    /\ broken = {}
    /\ server_ = FALSE
    /\ start_times_ = EmptyMap
    /\ next_id_ = 0
    /\ metrics_ = NoMetrics
    /\ hrnow = 0
    /\ completed = 0
    /\ subscriptions_mutex_ = <<>>
    /\ auth_mutex_ = <<>>
    /\ caller = [t \in Threads |-> Idle]
    /\ client_running_ = FALSE
    /\ worker_pc = "none"
    /\ websocket_thread_ = "none"
    /\ held = [m \in Mutexes |-> <<>>]
    /\ websocket_connected_ = FALSE
    /\ channel_callbacks_ = {}
    /\ message_queue_ = <<>>
    /\ writer = <<>>
    /\ worker = <<>>
    /\ received = <<>>
    /\ dispatched = <<>>
    /\ running_ = FALSE
    /\ server_running_ = FALSE
    /\ stopper = [t \in Threads |-> "idle"]
    /\ waiter = "idle"
    /\ starts = 0
    /\ disconnects = 0
    /\ serverStops = 0
    /\ authenticated_ = FALSE
    /\ credentials_ = NoCredentials
    /\ now = 0
    /\ issued = {}
    /\ lastSent = NoSent
    /\ lastReqs = <<>>
    /\ last = [op |-> "init"]

Next ==
    \/ \E hdl \in Conns : OnOpen(hdl)
    \/ \E hdl \in Conns : OnClose(hdl)
    \/ \E hdl \in Conns, message \in Frames :
          \E reply \in RepliesConsumed(message) : OnMessage(hdl, message, reply)
    \/ \E channel \in Channels, payload \in Payloads : BroadcastToChannel(channel, payload)
    \/ \E instrument_name \in BookInstruments, depth \in Depths :
          \E reply \in BookRepliesConsumed(instrument_name, depth) :
             GetOrderbook(instrument_name, depth, reply)
    \/ \E update \in BookPushes : PushOrderbook(update)

Spec == Init /\ [][Next]_vars

----------------------------------------------------------------------------
(* Properties of the broadcast server *)

Subscribers(chan, channel) == IF channel \in DOMAIN chan THEN chan[channel] ELSE {}
ChannelsOf(conn, hdl) == IF hdl \in DOMAIN conn THEN conn[hdl] ELSE {}

\* C1: broadcast_to_channel(k, m) sends m exactly to the peers that issued
\* subscribe on k and have since neither issued unsubscribe on k nor
\* disconnected; with no such peer nothing is sent.
C1_FanoutToIssuedSubscribers ==
    last.op = "broadcast_to_channel" =>
        \A c \in Conns :
            lastSent[c] = IF <<c, last.channel>> \in issued
                          THEN << [type |-> "text", payload |-> last.payload] >>
                          ELSE <<>>

C1_Witness ==
    /\ last.op = "broadcast_to_channel"
    /\ \E c \in Conns : lastSent[c] # <<>>
    /\ \E c \in connections_ : lastSent[c] = <<>> /\ ChannelsOf(connection_subscriptions_, c) # {}

\* C2: double-index consistency: c is in channel_subscriptions_[k] if and
\* only if k is in connection_subscriptions_[c].
C2_DoubleIndexConsistent ==
    \A c \in Conns \cup DOMAIN connection_subscriptions_ :
        \A k \in Channels \cup DOMAIN channel_subscriptions_ :
            (c \in Subscribers(channel_subscriptions_, k))
                <=> (k \in ChannelsOf(connection_subscriptions_, c))

C2_Witness ==
    /\ last.op = "on_close"
    /\ last.hdl \in DOMAIN last.pre.conn
    /\ DOMAIN channel_subscriptions_ # {}

\* C3 as stated: every connection in the connections set has an entry in the
\* inverse index.
C3_EveryConnectionHasEntry ==
    \A c \in connections_ : c \in DOMAIN connection_subscriptions_

\* C3 amended: a connection in the connections set has an entry in the inverse
\* index exactly when it is subscribed to at least one channel, and entries are
\* never empty; after on_open and after the last unsubscribe there is none.
C3_EntryIffSubscribed ==
    \A c \in connections_ :
        /\ (c \in DOMAIN connection_subscriptions_)
              <=> (\E k \in DOMAIN channel_subscriptions_ : c \in channel_subscriptions_[k])
        /\ c \in DOMAIN connection_subscriptions_ => connection_subscriptions_[c] # {}

C3_Witness ==
    /\ last.op = "on_message"
    /\ WellFormed(last.message, "unsubscribe")
    /\ last.hdl \in connections_
    /\ last.hdl \in DOMAIN last.pre.conn
    /\ last.hdl \notin DOMAIN connection_subscriptions_
    /\ \E c \in connections_ : c \in DOMAIN connection_subscriptions_

\* C4 as stated: subscribe(c) followed by unsubscribe(c) from the same peer
\* leaves both indices as they were before the subscribe, whatever the prior
\* state.
C4_RoundTripAlways ==
    (last.op = "on_message" /\ last.before # <<>>) => CurrentTabs = last.before[1]

\* C4 amended: subscribe(c) followed by unsubscribe(c) from peer p leaves both
\* indices as they were before the subscribe, provided p was not subscribed to
\* c before the subscribe.
C4_RoundTripWhenNotSubscribed ==
    (/\ last.op = "on_message"
     /\ last.before # <<>>
     /\ last.hdl \notin Subscribers(last.before[1].chan, last.message.channel))
        => CurrentTabs = last.before[1]

C4_Witness ==
    /\ last.op = "on_message"
    /\ last.before # <<>>
    /\ last.hdl \notin Subscribers(last.before[1].chan, last.message.channel)
    /\ last.hdl \in Subscribers(last.pre.chan, last.message.channel)
    /\ DOMAIN channel_subscriptions_ # {}

\* unsubscribe(p, k) for every k of a set of channels, one after the other
RECURSIVE UnsubscribeEach(_, _, _)
UnsubscribeEach(tabs, hdl, channels) ==
    IF channels = {} THEN tabs
    ELSE LET k == CHOOSE x \in channels : TRUE
         IN UnsubscribeEach(unsubscribe_client(tabs, hdl, k), hdl, channels \ {k})

\* C5: on_close(p) ends in the connections set and the indices that
\* unsubscribe(p, k) for every channel k of p followed by the removal of p from
\* the connections set ends in; p is then in no subscriber set and has no
\* inverse-index entry.
C5_CloseIsUnsubscribeEach ==
    [][ \A p \in Conns :
          (last'.op = "on_close" /\ last'.hdl = p) =>
             /\ connections_' = connections_ \ {p}
             /\ CurrentTabs' =
                  UnsubscribeEach(CurrentTabs, p,
                      {k \in DOMAIN channel_subscriptions_ : p \in channel_subscriptions_[k]})
             /\ \A k \in DOMAIN channel_subscriptions_' : p \notin channel_subscriptions_'[k]
             /\ p \notin DOMAIN connection_subscriptions_' ]_vars

C5_Witness ==
    /\ last.op = "on_close"
    /\ Cardinality(ChannelsOf(last.pre.conn, last.hdl)) = 2
    /\ DOMAIN channel_subscriptions_ # {}
    /\ DOMAIN channel_subscriptions_ # DOMAIN last.pre.chan

\* C6: a subscribe to orderbook.<instrument> is answered with the subscribed
\* frame first and the orderbook snapshot of that instrument after it.
C6_SubscribedBeforeSnapshot ==
    (/\ last.op = "on_message"
     /\ WellFormed(last.message, "subscribe")
     /\ HasOrderbookPrefix(last.message.channel))
        => LET sent == lastSent[last.hdl]
           IN /\ Len(sent) = 2
              /\ sent[1] = [type |-> "subscribed", channel |-> last.message.channel]
              /\ sent[2].type = "orderbook"
              /\ sent[2].instrument_name = Tail(last.message.channel)

C6_Witness ==
    /\ last.op = "on_message"
    /\ WellFormed(last.message, "subscribe")
    /\ HasOrderbookPrefix(last.message.channel)
    /\ Len(lastSent[last.hdl]) = 2
    /\ lastSent[last.hdl][2].timestamp # ""

\* the frames C7 is about
Malformed(message) ==
    \/ ~message.json
    \/ ~contains(message, "type")
    \/ message.typeIsString /\ message.type \notin RequestTypes
    \/ message.typeIsString /\ message.type \in RequestTypes /\ ~contains(message, "channel")

\* C7: a frame that is not JSON, lacks type, has an unknown type or is a
\* subscribe/unsubscribe without channel gets exactly one error frame, sent to
\* the offending peer only; the peer stays connected and the indices are
\* unchanged.
C7_MalformedFrameOneError ==
    (last.op = "on_message" /\ Malformed(last.message)) =>
        /\ Len(lastSent[last.hdl]) = 1
        /\ lastSent[last.hdl][1].type = "error"
        /\ \A c \in Conns \ {last.hdl} : lastSent[c] = <<>>
        /\ last.hdl \in connections_
        /\ CurrentTabs = last.pre

C7_Witness ==
    /\ last.op = "on_message"
    /\ ~last.message.json
    /\ ChannelsOf(connection_subscriptions_, last.hdl) # {}
    /\ lastSent[last.hdl] # <<>>

\* C11 as stated: a get_orderbook on an instrument without a cache entry makes
\* exactly one public/get_order_book call and stores the result; a
\* get_orderbook on an instrument with an entry returns the cached book and
\* makes no call, whatever the depth.
C11_ReadThroughAlways ==
    [][ last'.op = "get_orderbook" =>
          IF last'.instrument_name \in DOMAIN orderbooks_
          THEN /\ last'.ret = orderbooks_[last'.instrument_name]
               /\ lastReqs' = <<>>
               /\ orderbooks_' = orderbooks_
          ELSE /\ Len(lastReqs') = 1
               /\ lastReqs'[1].method = "public/get_order_book"
               /\ last'.instrument_name \in DOMAIN orderbooks_'
               /\ orderbooks_'[last'.instrument_name] = last'.ret ]_vars

\* C11 amended: with a non-empty instrument and depth > 0, a get_orderbook on
\* an instrument without a cache entry makes exactly one public/get_order_book
\* call, and stores and returns the book when the venue's reply is a
\* well-formed result (otherwise nothing is stored); on an instrument with an
\* entry it returns the cached book, makes no call and leaves the cache as it
\* is.  With an empty instrument or depth <= 0 it returns an empty book, makes
\* no call and leaves the cache as it is.
C11_ReadThroughWhenValid ==
    [][ last'.op = "get_orderbook" =>
          IF last'.instrument_name = EmptyString \/ last'.depth <= 0
          THEN /\ last'.ret = EmptyBook(last'.instrument_name)
               /\ lastReqs' = <<>>
               /\ orderbooks_' = orderbooks_
          ELSE IF last'.instrument_name \in DOMAIN orderbooks_
          THEN /\ last'.ret = orderbooks_[last'.instrument_name]
               /\ lastReqs' = <<>>
               /\ orderbooks_' = orderbooks_
          ELSE /\ Len(lastReqs') = 1
               /\ lastReqs'[1].method = "public/get_order_book"
               /\ lastReqs'[1].instrument_name = last'.instrument_name
               /\ IF last'.reply = "ok"
                  THEN orderbooks_' = MapPut(orderbooks_, last'.instrument_name, last'.ret)
                  ELSE orderbooks_' = orderbooks_ ]_vars

\* a later call with another depth is served from the cache
C11_Witness ==
    /\ last.op = "get_orderbook"
    /\ last.instrument_name = ETH
    /\ last.depth = 1
    /\ lastReqs = <<>>
    /\ ETH \in DOMAIN orderbooks_
    /\ last.ret = orderbooks_[ETH]
    /\ BTC \in DOMAIN orderbooks_

\* the requests C20 is about
IsRequest(message) == WellFormed(message, "subscribe") \/ WellFormed(message, "unsubscribe")

\* C20 as stated: handling a downstream subscribe or unsubscribe request
\* causes no upstream subscription and leaves the session and the order,
\* position and book caches unchanged.
C20_OnlySubscriptionTables ==
    [][ (last'.op = "on_message" /\ IsRequest(last'.message)) =>
          /\ UNCHANGED <<sessionVars, upstreamVars, open_orders_, positions_>>
          /\ orderbooks_' = orderbooks_ ]_vars

\* C20 amended: handling a downstream subscribe or unsubscribe request causes
\* no upstream subscription and leaves the session and the order and position
\* caches unchanged; the book cache changes only when the request is a
\* subscribe to orderbook.<instrument> and the instrument has no entry, in
\* which case one public/get_order_book request is made and the book the
\* venue returned, if any, is stored under the instrument.
C20_TablesAndBookReadThrough ==
    [][ (last'.op = "on_message" /\ IsRequest(last'.message)) =>
          LET channel == last'.message.channel
              reads == /\ last'.message.type = "subscribe"
                       /\ HasOrderbookPrefix(channel)
                       /\ Tail(channel) \notin DOMAIN orderbooks_
          IN /\ UNCHANGED <<sessionVars, upstreamVars, open_orders_, positions_>>
             /\ IF reads
                THEN /\ Len(lastReqs') = 1
                     /\ lastReqs'[1].method = "public/get_order_book"
                     /\ lastReqs'[1].instrument_name = Tail(channel)
                     /\ \/ orderbooks_' = orderbooks_
                        \/ \E reply \in BookReplies :
                              /\ reply.kind = "ok"
                              /\ orderbooks_' =
                                    MapPut(orderbooks_, Tail(channel),
                                           [instrument_name |-> Tail(channel),
                                            timestamp |-> reply.book.timestamp,
                                            bids |-> reply.book.bids,
                                            asks |-> reply.book.asks])
                ELSE /\ lastReqs' = <<>>
                     /\ orderbooks_' = orderbooks_ ]_vars

\* a subscribe that has filled the book cache
C20_Witness ==
    /\ last.op = "on_message"
    /\ WellFormed(last.message, "subscribe")
    /\ HasOrderbookPrefix(last.message.channel)
    /\ Len(lastReqs) = 1
    /\ Tail(last.message.channel) \in DOMAIN orderbooks_
    /\ ETH \in DOMAIN orderbooks_

\* C21: a book push is forwarded to the subscribers of
\* orderbook.<instrument> and to nobody else, and the book cache is left as it
\* is: an entry of the book cache, once stored, stays what the read-through
\* stored, so a get_orderbook after any number of pushes returns that book.
C21_PushLeavesBookCache ==
    [][ /\ last'.op = "push_orderbook" =>
              /\ orderbooks_' = orderbooks_
              /\ last'.update.complete =>
                    \A c \in Conns :
                       lastSent'[c] =
                          IF c \in Subscribers(channel_subscriptions_,
                                               OrderbookPrefix \o last'.update.instrument_name)
                          THEN <<OrderbookFrame(last'.update.instrument_name,
                                                [instrument_name |-> last'.update.instrument_name,
                                                 timestamp |-> last'.update.book.timestamp,
                                                 bids |-> last'.update.book.bids,
                                                 asks |-> last'.update.book.asks])>>
                          ELSE <<>>
        /\ \A i \in DOMAIN orderbooks_ :
              i \in DOMAIN orderbooks_' /\ orderbooks_'[i] = orderbooks_[i]
        /\ (/\ last'.op = "get_orderbook"
            /\ last'.depth > 0
            /\ last'.instrument_name \in DOMAIN orderbooks_) =>
              last'.ret = orderbooks_[last'.instrument_name] ]_vars

\* a push with another book than the cached one has been forwarded
C21_Witness ==
    /\ last.op = "push_orderbook"
    /\ last.update.complete
    /\ BTC \in DOMAIN orderbooks_
    /\ orderbooks_[BTC].timestamp # last.update.book.timestamp
    /\ \E c \in Conns : /\ lastSent[c] # <<>>
                          /\ lastSent[c][1].timestamp = last.update.book.timestamp

----------------------------------------------------------------------------
(* WebSocketServer: lifecycle, broadcast and send errors.  lastSent holds the
   calls of server_->send made by the last operation; a call for a connection
   in broken throws, and the catch around it is inside the loop.  The loops
   run over std::set in the order of the handles. *)

\* broadcast that sends to every handle, open or not
broadcast_everyHandle(conns, out, message) ==
    [c \in Conns |-> Append(out[c], message)]

\* broadcast whose loop is left at the first send that throws
broadcast_stopsAtError(conns, out, message) ==
    [c \in Conns |-> IF c \in conns /\ \A d \in conns : d < c => d \notin broken
                     THEN Append(out[c], message) ELSE out[c]]

broadcast(conns, out, message) ==
    [c \in Conns |-> IF c \in conns THEN Append(out[c], message) ELSE out[c]]

get_connection_count(conns) == Cardinality(conns)

\* start() that listens again on a running server
server_start_restarts(running, ok) ==
    [running |-> ok, ret |-> ok, listened |-> TRUE]

\* WebSocketServer::start: ok is false when listen, start_accept or the thread
\* construction throws
server_start(running, ok) ==
    IF running
    THEN [running |-> TRUE, ret |-> TRUE, listened |-> FALSE]
    ELSE [running |-> ok, ret |-> ok, listened |-> TRUE]

\* WebSocketServer::stop
server_stop(running) ==
    IF ~running
    THEN [running |-> FALSE, stopped |-> FALSE]
    ELSE [running |-> FALSE, stopped |-> TRUE]

ServerUnchanged ==
    UNCHANGED <<serverVars, sessionVars, upstreamVars, running_, stopper, waiter, starts,
                disconnects, serverStops, broken, trackerVars, lockVars, clientVars, orderbooks_,
                open_orders_, positions_, lastReqs>>

ServerInitialize ==
    /\ ~server_
    /\ server_' = TRUE
    /\ last' = [op |-> "server_initialize"]
    /\ UNCHANGED server_running_
    /\ ServerUnchanged

ServerStart(ok) ==
    /\ server_
    /\ LET r == server_start(server_running_, ok)
       IN /\ server_running_' = r.running
          /\ last' = [op |-> "server_start", ok |-> ok, ret |-> r.ret,
                      listened |-> r.listened]
    /\ UNCHANGED server_
    /\ ServerUnchanged

ServerStop ==
    /\ server_
    /\ LET r == server_stop(server_running_)
       IN /\ server_running_' = r.running
          /\ last' = [op |-> "server_stop", stopped |-> r.stopped]
    /\ UNCHANGED server_
    /\ ServerUnchanged

\* the handlers run on the server thread, so only while the server runs
Accept(hdl) == server_running_ /\ OnOpen(hdl)
Close(hdl) == server_running_ /\ OnClose(hdl)
Requests == {Request(t, ChanTrades) : t \in RequestTypes}
Receive_(hdl, message, reply) == server_running_ /\ OnMessage(hdl, message, reply)

\* the transport of hdl starts or stops refusing frames
Break(hdl) ==
    /\ broken' = IF hdl \in broken THEN broken \ {hdl} ELSE broken \cup {hdl}
    /\ last' = [op |-> "break", hdl |-> hdl]
    /\ lastSent' = NoSent
    /\ UNCHANGED <<connections_, channel_subscriptions_, connection_subscriptions_, issued,
                   sessionVars, upstreamVars, systemVars, server_, trackerVars, lockVars, clientVars,
                   orderbooks_, open_orders_, positions_, lastReqs>>

Broadcast(payload) ==
    /\ lastSent' = broadcast(connections_, NoSent, [type |-> "text", payload |-> payload])
    /\ lastReqs' = <<>>
    /\ last' = [op |-> "broadcast", payload |-> payload, pre |-> CurrentTabs]
    /\ UNCHANGED <<positions_, extraVars, upstreamVars, systemVars, connections_,
                   channel_subscriptions_, connection_subscriptions_, issued, orderbooks_,
                   open_orders_, sessionVars>>

GetConnectionCount ==
    /\ last' = [op |-> "get_connection_count", ret |-> get_connection_count(connections_)]
    /\ lastSent' = NoSent
    /\ lastReqs' = <<>>
    /\ UNCHANGED <<positions_, extraVars, upstreamVars, systemVars, connections_,
                   channel_subscriptions_, connection_subscriptions_, issued, orderbooks_,
                   open_orders_, sessionVars>>

NextServer ==
    \/ ServerInitialize
    \/ \E ok \in BOOLEAN : ServerStart(ok)
    \/ ServerStop
    \/ \E hdl \in Conns : Accept(hdl)
    \/ \E hdl \in Conns : Close(hdl)
    \/ \E hdl \in Conns, message \in Requests :
          \E reply \in RepliesConsumed(message) : Receive_(hdl, message, reply)
    \/ \E hdl \in Conns : Break(hdl)
    \/ \E payload \in Payloads : Broadcast(payload)
    \/ \E channel \in Channels, payload \in Payloads : BroadcastToChannel(channel, payload)
    \/ GetConnectionCount

SpecServer == Init /\ [][NextServer]_vars

\* C22: broadcast sends the message to every connection that has been opened
\* and not closed since, and to no other; get_connection_count is the number
\* of these connections.  The connection set is exactly that set: an open
\* adds the handle, a close removes it, nothing else changes the set.
C22_BroadcastToOpenConnections ==
    [][ /\ last'.op = "on_open" => connections_' = connections_ \cup {last'.hdl}
        /\ last'.op = "on_close" => connections_' = connections_ \ {last'.hdl}
        /\ last'.op \notin {"on_open", "on_close"} => connections_' = connections_
        /\ last'.op = "broadcast" =>
              \A c \in Conns :
                 lastSent'[c] = IF c \in connections_
                                THEN <<[type |-> "text", payload |-> last'.payload]>>
                                ELSE <<>>
        /\ last'.op = "get_connection_count" =>
              last'.ret = Cardinality(connections_) ]_vars

\* a broadcast reached the one open connection and skipped the other handle
C22_Witness ==
    /\ last.op = "broadcast"
    /\ Cardinality(connections_) = 1
    /\ \E c \in connections_ : lastSent[c] # <<>>
    /\ \E c \in Conns \ connections_ : lastSent[c] = <<>>

\* C23: a send that throws for one peer does not end a fan-out: broadcast and
\* broadcast_to_channel call send for every peer of the target set, the peers
\* after a failing one included, and leave the connection set and both
\* subscription tables as they are.
C23_SendErrorDoesNotStopFanout ==
    [][ last'.op \in {"broadcast", "broadcast_to_channel"} =>
          /\ LET targets == IF last'.op = "broadcast" THEN connections_
                            ELSE Subscribers(channel_subscriptions_, last'.channel)
             IN \A c \in targets :
                   lastSent'[c] = <<[type |-> "text", payload |-> last'.payload]>>
          /\ UNCHANGED <<connections_, channel_subscriptions_, connection_subscriptions_>> ]_vars

\* a broadcast whose send to the first connection threw and whose send to
\* the second was made
C23_Witness ==
    /\ last.op = "broadcast"
    /\ \E c, d \in connections_ :
          /\ c < d
          /\ c \in broken
          /\ d \notin broken
          /\ lastSent[d] # <<>>

----------------------------------------------------------------------------
(* LatencyTracker.  Time points and durations are integers; the clock is
   high_resolution_clock, which the tracker reads before it takes its mutex. *)

MaxIds == 3
MaxClock == 2
MaxSamples == 2

Ids == 0..MaxIds
Clock == 0..MaxClock

Min(a, b) == IF a < b THEN a ELSE b
Max(a, b) == IF a > b THEN a ELSE b

\* LatencyTracker::start: the token and the start times
LatencyTracker_start(st, nid, t) ==
    [id |-> nid, next_id |-> nid + 1, start_times |-> MapPut(st, nid, t)]

\* end() that measures a latency of zero for a token it does not know
LatencyTracker_end_countsUnknown(st, m, id, t) ==
    LET latency == IF id \in DOMAIN st THEN t - st[id] ELSE 0
    IN [start_times |-> IF id \in DOMAIN st THEN MapErase(st, id) ELSE st,
        metrics |-> [min_latency |-> Min(m.min_latency, latency),
                     max_latency |-> Max(m.max_latency, latency),
                     total_latency |-> m.total_latency + latency,
                     count |-> m.count + 1,
                     samples |-> IF Len(m.samples) < MaxSamples
                                 THEN Append(m.samples, latency) ELSE m.samples]]

\* LatencyTracker::end
LatencyTracker_end(st, m, id, t) ==
    IF id \notin DOMAIN st
    THEN [start_times |-> st, metrics |-> m]
    ELSE LET latency == t - st[id]
         IN [start_times |-> MapErase(st, id),
             metrics |-> [min_latency |-> Min(m.min_latency, latency),
                          max_latency |-> Max(m.max_latency, latency),
                          total_latency |-> m.total_latency + latency,
                          count |-> m.count + 1,
                          samples |-> IF Len(m.samples) < MaxSamples
                                      THEN Append(m.samples, latency) ELSE m.samples]]

\* LatencyTracker::reset
LatencyTracker_reset(m) == NoMetrics

TrackerUnchanged ==
    UNCHANGED <<serverVars, sessionVars, upstreamVars, systemVars, broken, server_, lockVars, clientVars,
                orderbooks_, open_orders_, positions_, lastReqs>>

\* the clock is read again
ClockRead(t) ==
    /\ t # hrnow
    /\ hrnow' = t
    /\ last' = [op |-> "clock"]
    /\ UNCHANGED <<start_times_, next_id_, metrics_, completed>>
    /\ TrackerUnchanged

TrackerStart ==
    /\ next_id_ < MaxIds
    /\ LET r == LatencyTracker_start(start_times_, next_id_, hrnow)
       IN /\ start_times_' = r.start_times
          /\ next_id_' = r.next_id
          /\ last' = [op |-> "start", id |-> r.id]
    /\ UNCHANGED <<metrics_, hrnow, completed>>
    /\ TrackerUnchanged

TrackerEnd(id) ==
    /\ LET r == LatencyTracker_end(start_times_, metrics_, id, hrnow)
       IN /\ start_times_' = r.start_times
          /\ metrics_' = r.metrics
    /\ completed' = IF id \in DOMAIN start_times_ THEN completed + 1 ELSE completed
    /\ last' = [op |-> "end", id |-> id, known |-> id \in DOMAIN start_times_]
    /\ UNCHANGED <<next_id_, hrnow>>
    /\ TrackerUnchanged

TrackerReset ==
    /\ metrics_' = LatencyTracker_reset(metrics_)
    /\ completed' = 0
    /\ last' = [op |-> "reset"]
    /\ UNCHANGED <<start_times_, next_id_, hrnow>>
    /\ TrackerUnchanged

NextTracker ==
    \/ \E t \in Clock : ClockRead(t)
    \/ TrackerStart
    \/ \E id \in Ids : TrackerEnd(id)
    \/ TrackerReset

SpecTracker == Init /\ [][NextTracker]_vars

\* C24: when count > 0 the average total/count lies between min_latency and
\* max_latency; count is the number of start()/end(token) pairs completed
\* since the last reset; an end() with a token that was never issued or has
\* been ended already changes no aggregate and no start time.
C24_TrackerAggregates ==
    [][ /\ metrics_'.count = completed'
        /\ metrics_'.count > 0 =>
              /\ metrics_'.min_latency * metrics_'.count <= metrics_'.total_latency
              /\ metrics_'.total_latency <= metrics_'.max_latency * metrics_'.count
        /\ (last'.op = "end" /\ last'.id \notin DOMAIN start_times_) =>
              /\ metrics_' = metrics_
              /\ start_times_' = start_times_ ]_vars

\* after two measurements of different length, end() was called again with
\* a token that had been ended
C24_Witness ==
    /\ last.op = "end"
    /\ ~last.known
    /\ last.id < next_id_
    /\ metrics_.count = 2
    /\ metrics_.min_latency < metrics_.max_latency

----------------------------------------------------------------------------
(* The latency token of the coordinator's book-push callback.  The tracker
   modelled is the one registered as process_orderbook_update. *)

\* the callback with its timing: start() is the first statement of the try
\* block and end() its last, so a conversion that throws goes to the catch
\* with the token still pending.  t0 and t1 are the clock at start and at end
process_orderbook_update(st, nid, m, chan, out, cache, update, t0, t1) ==
    LET s == LatencyTracker_start(st, nid, t0)
        r == TradingSystem_handle_orderbook_update(chan, out, cache, update)
    IN IF ~update.complete
       THEN [start_times |-> s.start_times, next_id |-> s.next_id, metrics |-> m,
             ended |-> FALSE, out |-> r.out, cache |-> r.cache]
       ELSE LET e == LatencyTracker_end(s.start_times, m, s.id, t1)
            IN [start_times |-> e.start_times, next_id |-> s.next_id,
                metrics |-> e.metrics, ended |-> TRUE, out |-> r.out, cache |-> r.cache]

TimedPushOrderbook(update, t) ==
    /\ next_id_ < MaxIds
    /\ LET r == process_orderbook_update(start_times_, next_id_, metrics_,
                                         channel_subscriptions_, NoSent, orderbooks_,
                                         update, hrnow, t)
       IN /\ start_times_' = r.start_times
          /\ next_id_' = r.next_id
          /\ metrics_' = r.metrics
          /\ completed' = IF r.ended THEN completed + 1 ELSE completed
          /\ lastSent' = r.out
          /\ orderbooks_' = r.cache
    /\ hrnow' = t
    /\ lastReqs' = <<>>
    /\ last' = [op |-> "push_orderbook", update |-> update, pre |-> CurrentTabs]
    /\ UNCHANGED <<connections_, channel_subscriptions_, connection_subscriptions_, issued,
                   open_orders_, positions_, broken, server_, lockVars, clientVars, upstreamVars,
                   systemVars, sessionVars>>

NextTokens ==
    \/ \E hdl \in Conns : OnOpen(hdl)
    \/ \E hdl \in Conns :
          \E reply \in RepliesConsumed(Request("subscribe", ChanBook)) :
             OnMessage(hdl, Request("subscribe", ChanBook), reply)
    \/ \E update \in BookPushes, t \in Clock : TimedPushOrderbook(update, t)

SpecTokens == Init /\ [][NextTokens]_vars

\* C31: every token that an instrumented operation gets from start() has
\* been ended when the operation returns, on every exit path, so between
\* operations the tracker's pending-start table is empty.
C31_NoTokenPendingAfterReturn ==
    start_times_ = EmptyMap

----------------------------------------------------------------------------
(* ApiClient: the upstream session.  A session is the pair                 *)
(* (authenticated_, credentials_); the clock is read, never written.       *)

Session(authenticated, credentials) ==
    [authenticated |-> authenticated, credentials |-> credentials]

CurrentSession == Session(authenticated_, credentials_)

\* replies of the venue to public/auth: error is a transport failure or a
\* JSON-RPC error object
AuthError == [kind |-> "error", access_token |-> "", refresh_token |-> "", expires_in |-> 0]
AuthOk(access_token, refresh_token, expires_in) ==
    [kind |-> "ok", access_token |-> access_token, refresh_token |-> refresh_token,
     expires_in |-> expires_in]

\* a token that is valid for a while and one that has expired on arrival
AuthReplies == {AuthError, AuthOk("acc1", "ref1", 1), AuthOk("acc1", "ref1", 0)}

\* the venue's reply to a refresh matters only when a private request refreshes
RefreshRepliesConsumed ==
    IF authenticated_ /\ now >= credentials_.token_expiry THEN AuthReplies ELSE {AuthError}

\* the venue replies only to a request that is sent: reqs are the requests an
\* operation makes when it is given the reply none
Consumed(reqs, replies, none) ==
    IF reqs # <<>> /\ "params" \in DOMAIN reqs[Len(reqs)] THEN replies ELSE {none}

\* ApiResponse of public_request for a venue reply
Response(reply) ==
    IF reply.kind = "error"
    THEN [success |-> FALSE, error_message |-> "Request failed", data |-> reply]
    ELSE [success |-> TRUE, error_message |-> "", data |-> reply]

Failure(error_message) ==
    [success |-> FALSE, error_message |-> error_message, data |-> [kind |-> "none"]]

\* a reply to public/auth whose result has access_token and lacks
\* refresh_token: the conversion of the missing field throws after
\* access_token has been stored
AuthPartial(access_token) ==
    [kind |-> "partial", access_token |-> access_token, refresh_token |-> "", expires_in |-> 0]

\* refresh_token that leaves the session authenticated when the refresh fails
refresh_token_staysAuthenticated(sess, authReply) ==
    LET req == [method |-> "public/auth", grant_type |-> "refresh_token",
                refresh_token |-> sess.credentials.refresh_token]
    IN IF authReply.kind = "ok"
       THEN [ok |-> TRUE,
             sess |-> Session(sess.authenticated,
                              [access_token |-> authReply.access_token,
                               refresh_token |-> authReply.refresh_token,
                               token_expiry |-> now + authReply.expires_in]),
             reqs |-> <<req>>]
       ELSE [ok |-> FALSE, sess |-> sess, reqs |-> <<req>>]

\* returns ok, the session after the refresh and the request sent
refresh_token(sess, authReply) ==
    LET req == [method |-> "public/auth", grant_type |-> "refresh_token",
                refresh_token |-> sess.credentials.refresh_token]
    IN CASE authReply.kind = "ok" ->
              [ok |-> TRUE,
               sess |-> Session(sess.authenticated,
                                [access_token |-> authReply.access_token,
                                 refresh_token |-> authReply.refresh_token,
                                 token_expiry |-> now + authReply.expires_in]),
               reqs |-> <<req>>]
         [] authReply.kind = "partial" ->
              [ok |-> FALSE,
               sess |-> Session(FALSE, [sess.credentials EXCEPT
                                           !.access_token = authReply.access_token]),
               reqs |-> <<req>>]
         [] OTHER ->
              [ok |-> FALSE, sess |-> Session(FALSE, sess.credentials), reqs |-> <<req>>]

\* private_request that refreshes only when the expiry instant has passed
private_request_strictExpiry(sess, params, authReply, reply) ==
    IF ~sess.authenticated
    THEN [resp |-> Failure("Not authenticated"), sess |-> sess, reqs |-> <<>>]
    ELSE LET expired == now > sess.credentials.token_expiry
             r == refresh_token(sess, authReply)
             sess2 == IF expired THEN r.sess ELSE sess
             reqs2 == IF expired THEN r.reqs ELSE <<>>
         IN IF expired /\ ~r.ok
            THEN [resp |-> Failure("Failed to refresh token"), sess |-> sess2, reqs |-> reqs2]
            ELSE [resp |-> Response(reply), sess |-> sess2,
                  reqs |-> Append(reqs2,
                                  [params |-> params,
                                   access_token |-> sess2.credentials.access_token])]

\* private_request without the check of the authenticated flag
private_request_skipsAuthCheck(sess, params, authReply, reply) ==
    LET expired == now >= sess.credentials.token_expiry
        r == refresh_token(sess, authReply)
        sess2 == IF expired THEN r.sess ELSE sess
        reqs2 == IF expired THEN r.reqs ELSE <<>>
    IN IF expired /\ ~r.ok
       THEN [resp |-> Failure("Failed to refresh token"), sess |-> sess2, reqs |-> reqs2]
       ELSE [resp |-> Response(reply), sess |-> sess2,
             reqs |-> Append(reqs2,
                             [params |-> params,
                              access_token |-> sess2.credentials.access_token])]

\* returns the ApiResponse, the session afterwards and the requests sent;
\* params is the request without its access_token
private_request(sess, params, authReply, reply) ==
    IF ~sess.authenticated
    THEN [resp |-> Failure("Not authenticated"), sess |-> sess, reqs |-> <<>>]
    ELSE LET expired == now >= sess.credentials.token_expiry
             r == refresh_token(sess, authReply)
             sess2 == IF expired THEN r.sess ELSE sess
             reqs2 == IF expired THEN r.reqs ELSE <<>>
         IN IF expired /\ ~r.ok
            THEN [resp |-> Failure("Failed to refresh token"), sess |-> sess2, reqs |-> reqs2]
            ELSE [resp |-> Response(reply), sess |-> sess2,
                  reqs |-> Append(reqs2,
                                  [params |-> params,
                                   access_token |-> sess2.credentials.access_token])]

\* authenticate that sets the flag although the reply lacks refresh_token
authenticate_trustsPartial(sess, authReply) ==
    CASE authReply.kind = "ok" ->
           [ret |-> TRUE,
            sess |-> Session(TRUE, [access_token |-> authReply.access_token,
                                    refresh_token |-> authReply.refresh_token,
                                    token_expiry |-> now + authReply.expires_in])]
      [] authReply.kind = "partial" ->
           [ret |-> TRUE,
            sess |-> Session(TRUE, [sess.credentials EXCEPT
                                       !.access_token = authReply.access_token])]
      [] OTHER -> [ret |-> FALSE, sess |-> sess]

\* returns the return value and the session afterwards
authenticate(sess, authReply) ==
    CASE authReply.kind = "ok" ->
           [ret |-> TRUE,
            sess |-> Session(TRUE, [access_token |-> authReply.access_token,
                                    refresh_token |-> authReply.refresh_token,
                                    token_expiry |-> now + authReply.expires_in])]
      [] authReply.kind = "partial" ->
           [ret |-> FALSE,
            sess |-> Session(sess.authenticated,
                             [sess.credentials EXCEPT
                                 !.access_token = authReply.access_token])]
      [] OTHER -> [ret |-> FALSE, sess |-> sess]

Authenticate(authReply) ==
    /\ LET req == [method |-> "public/auth", grant_type |-> "client_credentials"]
       IN lastReqs' = <<req>>
    /\ LET r == authenticate(CurrentSession, authReply)
       IN /\ credentials_' = r.sess.credentials
          /\ authenticated_' = r.sess.authenticated
          /\ last' = [op |-> "authenticate", reply |-> authReply, at |-> now,
                      ret |-> r.ret]
    /\ UNCHANGED <<positions_, extraVars, upstreamVars, systemVars, serverVars, orderbooks_, open_orders_, now>>

----------------------------------------------------------------------------
(* OrderManager: input alphabets *)

Instruments == {EmptyString, BTC}
OrderTypes == {"MARKET", "LIMIT", "STOP_MARKET", "STOP_LIMIT"}
OrderDirections == {"BUY", "SELL"}
TimeInForces == {"GOOD_TIL_CANCELLED", "FILL_OR_KILL", "IMMEDIATE_OR_CANCEL"}
OrderIds == {"o1", "o2"}
OrderIdArgs == OrderIds \cup {""}

PlaceArgs(instrument_name, type, direction, amount, price, time_in_force) ==
    [instrument_name |-> instrument_name, type |-> type, direction |-> direction,
     amount |-> amount, price |-> price, time_in_force |-> time_in_force]

\* the calls of place_order: one acceptable call for every order type, each
\* argument at the values the validation tells apart, and the remaining values
\* of direction and time in force
PlaceInputs ==
    {PlaceArgs(BTC, type, "BUY", 1, 1, "GOOD_TIL_CANCELLED") : type \in OrderTypes}
    \cup {PlaceArgs(BTC, type, "SELL", 1, price, "FILL_OR_KILL") :
             type \in {"LIMIT", "STOP_LIMIT"}, price \in {-1, 0}}
    \cup {PlaceArgs(EmptyString, "LIMIT", "BUY", 1, 1, "GOOD_TIL_CANCELLED"),
          PlaceArgs(BTC, "LIMIT", "BUY", 0, 1, "GOOD_TIL_CANCELLED"),
          PlaceArgs(BTC, "MARKET", "BUY", -1, 1, "GOOD_TIL_CANCELLED"),
          PlaceArgs(BTC, "MARKET", "SELL", 1, 0, "IMMEDIATE_OR_CANCEL")}

\* the (amount, price) pairs of modify_order
ModifyInputs == {<<0, 0>>, <<2, 0>>, <<0, 2>>}

order_type_to_string(type) ==
    CASE type = "MARKET" -> "market"
      [] type = "LIMIT" -> "limit"
      [] type = "STOP_MARKET" -> "stop_market"
      [] type = "STOP_LIMIT" -> "stop_limit"
      [] OTHER -> ""

time_in_force_to_string(time_in_force) ==
    CASE time_in_force = "GOOD_TIL_CANCELLED" -> "good_til_cancelled"
      [] time_in_force = "FILL_OR_KILL" -> "fill_or_kill"
      [] time_in_force = "IMMEDIATE_OR_CANCEL" -> "immediate_or_cancel"
      [] OTHER -> ""

\* the if-chains that parse the venue's strings; a string outside the chain
\* leaves the default-initialised enum member as it is
ParseOrderType(str) ==
    CASE str = "limit" -> "LIMIT"
      [] str = "market" -> "MARKET"
      [] str = "stop_market" -> "STOP_MARKET"
      [] str = "stop_limit" -> "STOP_LIMIT"
      [] OTHER -> "indeterminate"

ParseDirection(str) == IF str = "buy" THEN "BUY" ELSE "SELL"

ParseTimeInForce(str) ==
    CASE str = "good_til_cancelled" -> "GOOD_TIL_CANCELLED"
      [] str = "fill_or_kill" -> "FILL_OR_KILL"
      [] str = "immediate_or_cancel" -> "IMMEDIATE_OR_CANCEL"
      [] OTHER -> "indeterminate"

\* an order object as the venue sends it.  hasId: order_id is present;
\* complete: the fields read after order_id and order_state are present
VenueOrder(order_id, state, complete) ==
    [hasId |-> TRUE, complete |-> complete, order_id |-> order_id,
     instrument_name |-> BTC,
     order_type |-> CASE state = "open" -> "limit"
                      [] state = "untriggered" -> "stop_limit"
                      [] OTHER -> "market",
     direction |-> IF state = "untriggered" THEN "sell" ELSE "buy",
     price |-> IF state = "filled" THEN 0 ELSE 1,
     amount |-> 1,
     time_in_force |-> CASE state = "open" -> "good_til_cancelled"
                         [] state = "untriggered" -> "fill_or_kill"
                         [] OTHER -> "immediate_or_cancel",
     order_state |-> state, creation_timestamp |-> 1, last_update_timestamp |-> 1]

OrderStates == {"open", "untriggered", "filled"}

VenueOrders ==
    {VenueOrder(id, st, TRUE) : id \in OrderIds, st \in OrderStates}
    \cup {VenueOrder("o1", st, FALSE) : st \in {"open", "filled"}}
    \cup {[VenueOrder("o1", "open", TRUE) EXCEPT !.hasId = FALSE]}

\* the Order that get_open_orders, get_order and handle_order_update build
ParseOrder(json) ==
    [order_id |-> json.order_id,
     instrument_name |-> json.instrument_name,
     type |-> ParseOrderType(json.order_type),
     direction |-> ParseDirection(json.direction),
     price |-> json.price,
     amount |-> json.amount,
     time_in_force |-> ParseTimeInForce(json.time_in_force),
     status |-> json.order_state,
     created_at |-> json.creation_timestamp,
     last_updated_at |-> json.last_update_timestamp]

\* the conversions of ParseOrder throw
ParseThrows(json) == ~json.hasId \/ ~json.complete

\* venue replies
SimpleReplies == {[kind |-> "ok"], [kind |-> "error"]}

\* private/buy: malformed is a result without result.order.order_id
PlaceReplies ==
    {[kind |-> "ok", order_id |-> "o1", creation_timestamp |-> 1],
     [kind |-> "error", order_id |-> "", creation_timestamp |-> 0],
     [kind |-> "malformed", order_id |-> "", creation_timestamp |-> 0]}

\* private/get_order_state
OrderReplies ==
    {[kind |-> "ok", order |-> o] : o \in VenueOrders}
    \cup {[kind |-> "error", order |-> VenueOrder("o1", "open", TRUE)]}

\* private/get_open_orders_by_currency: a list of up to two order objects, the
\* second one about another order than the first
OrderListReplies ==
    {[kind |-> "ok", orders |-> l] :
        l \in {<<>>} \cup {<<a>> : a \in VenueOrders}
              \cup {<<a, b>> : a \in {VenueOrder("o1", "open", c) : c \in BOOLEAN},
                               b \in {VenueOrder("o2", st, TRUE) :
                                         st \in {"untriggered", "filled"}}}}
    \cup {[kind |-> "error", orders |-> <<>>]}

----------------------------------------------------------------------------
(* OrderManager: operations.  Each returns its return value, the open-orders *)
(* cache, the session and the upstream requests sent.                        *)

Result(ret, cache, sess, reqs) == [ret |-> ret, cache |-> cache, sess |-> sess, reqs |-> reqs]

place_order(cache, sess, instrument_name, type, direction, amount, price, time_in_force, authReply, reply) ==
    IF \/ instrument_name = EmptyString
       \/ amount <= 0
       \/ type = "LIMIT" /\ price <= 0
    THEN Result("", cache, sess, <<>>)
    ELSE LET typed == type = "LIMIT" \/ type = "STOP_LIMIT"
             \* an optional parameter is <<>> when absent and <<value>> when present
             params == [method |-> "private/buy", instrument_name |-> instrument_name,
                        amount |-> amount, type |-> order_type_to_string(type),
                        label |-> "deribit_trading_system",
                        side |-> IF direction = "BUY" THEN "buy" ELSE "sell",
                        price |-> IF typed THEN <<price>> ELSE <<>>,
                        time_in_force |->
                            IF typed THEN <<time_in_force_to_string(time_in_force)>>
                            ELSE <<>>]
             r == private_request(sess, params, authReply, reply)
         IN IF r.resp.success /\ r.resp.data.kind = "ok"
            THEN LET order == [order_id |-> r.resp.data.order_id,
                               instrument_name |-> instrument_name,
                               type |-> type, direction |-> direction,
                               price |-> price, amount |-> amount,
                               time_in_force |-> time_in_force, status |-> "open",
                               created_at |-> r.resp.data.creation_timestamp,
                               last_updated_at |-> r.resp.data.creation_timestamp]
                 IN Result(order.order_id, MapPut(cache, order.order_id, order),
                           r.sess, r.reqs)
            ELSE Result("", cache, r.sess, r.reqs)

\* cancel_order that leaves the cancelled order in the cache
cancel_order_keepsOrder(cache, sess, order_id, authReply, reply) ==
    IF order_id = ""
    THEN Result(FALSE, cache, sess, <<>>)
    ELSE LET r == private_request(sess, [method |-> "private/cancel", order_id |-> order_id],
                                  authReply, reply)
         IN IF r.resp.success
            THEN Result(TRUE, cache, r.sess, r.reqs)
            ELSE Result(FALSE, cache, r.sess, r.reqs)

\* cancel_order that drops the order from the cache whatever the venue replies
cancel_order_erasesOnFailure(cache, sess, order_id, authReply, reply) ==
    IF order_id = ""
    THEN Result(FALSE, cache, sess, <<>>)
    ELSE LET r == private_request(sess, [method |-> "private/cancel", order_id |-> order_id],
                                  authReply, reply)
         IN IF r.resp.success
            THEN Result(TRUE, MapErase(cache, order_id), r.sess, r.reqs)
            ELSE Result(FALSE, MapErase(cache, order_id), r.sess, r.reqs)

cancel_order(cache, sess, order_id, authReply, reply) ==
    IF order_id = ""
    THEN Result(FALSE, cache, sess, <<>>)
    ELSE LET r == private_request(sess, [method |-> "private/cancel", order_id |-> order_id],
                                  authReply, reply)
         IN IF r.resp.success
            THEN Result(TRUE, MapErase(cache, order_id), r.sess, r.reqs)
            ELSE Result(FALSE, cache, r.sess, r.reqs)

\* modify_order without its check of amount and price
modify_order_skipsValidation(cache, sess, order_id, amount, price, authReply, reply) ==
    IF order_id = ""
    THEN Result(FALSE, cache, sess, <<>>)
    ELSE LET params == [method |-> "private/edit", order_id |-> order_id,
                        amount |-> IF amount > 0 THEN <<amount>> ELSE <<>>,
                        price |-> IF price > 0 THEN <<price>> ELSE <<>>]
             r == private_request(sess, params, authReply, reply)
         IN IF r.resp.success
            THEN IF order_id \in DOMAIN cache
                 THEN LET o == cache[order_id]
                          patched == [o EXCEPT !.last_updated_at = now]
                      IN Result(TRUE, MapPut(cache, order_id, patched), r.sess, r.reqs)
                 ELSE Result(TRUE, cache, r.sess, r.reqs)
            ELSE Result(FALSE, cache, r.sess, r.reqs)

modify_order(cache, sess, order_id, amount, price, authReply, reply) ==
    IF order_id = "" \/ (amount <= 0 /\ price <= 0)
    THEN Result(FALSE, cache, sess, <<>>)
    ELSE LET params == [method |-> "private/edit", order_id |-> order_id,
                        amount |-> IF amount > 0 THEN <<amount>> ELSE <<>>,
                        price |-> IF price > 0 THEN <<price>> ELSE <<>>]
             r == private_request(sess, params, authReply, reply)
         IN IF r.resp.success
            THEN IF order_id \in DOMAIN cache
                 THEN LET o == cache[order_id]
                          patched == [o EXCEPT
                                        !.amount = IF amount > 0 THEN amount ELSE @,
                                        !.price = IF price > 0 THEN price ELSE @,
                                        !.last_updated_at = now]
                      IN Result(TRUE, MapPut(cache, order_id, patched), r.sess, r.reqs)
                 ELSE Result(TRUE, cache, r.sess, r.reqs)
            ELSE Result(FALSE, cache, r.sess, r.reqs)

\* the loop of get_open_orders: every parsed order is written to the cache;
\* the first object that does not parse ends the loop with an exception
RECURSIVE StoreListed(_, _, _)
StoreListed(cache, result, orders) ==
    IF orders = <<>> \/ ParseThrows(Head(orders))
    THEN [cache |-> cache, result |-> result]
    ELSE LET order == ParseOrder(Head(orders))
         IN StoreListed(MapPut(cache, order.order_id, order), Append(result, order),
                        Tail(orders))

get_open_orders(cache, sess, authReply, reply) ==
    LET r == private_request(sess, [method |-> "private/get_open_orders_by_currency"],
                             authReply, reply)
    IN IF r.resp.success
       THEN LET st == StoreListed(cache, <<>>, r.resp.data.orders)
            IN Result(st.result, st.cache, r.sess, r.reqs)
       ELSE Result(<<>>, cache, r.sess, r.reqs)

\* returns a one-element sequence holding the order, or <<>> for nullptr
get_order(cache, sess, order_id, authReply, reply) ==
    IF order_id = ""
    THEN Result(<<>>, cache, sess, <<>>)
    ELSE IF order_id \in DOMAIN cache
    THEN Result(<<cache[order_id]>>, cache, sess, <<>>)
    ELSE LET r == private_request(sess,
                                  [method |-> "private/get_order_state", order_id |-> order_id],
                                  authReply, reply)
         IN IF r.resp.success /\ ~ParseThrows(r.resp.data.order)
            THEN LET order == ParseOrder(r.resp.data.order)
                 IN Result(<<order>>,
                           IF order.status = "open"
                           THEN MapPut(cache, order_id, order) ELSE cache,
                           r.sess, r.reqs)
            ELSE Result(<<>>, cache, r.sess, r.reqs)

\* the push handler without its removal of orders that are no longer open
handle_order_update_keepsClosed(cache, update) ==
    IF ~update.hasId
    THEN cache
    ELSE IF update.order_state = "open" \/ update.order_state = "untriggered"
    THEN IF update.complete
         THEN MapPut(cache, update.order_id, ParseOrder(update))
         ELSE cache
    ELSE cache

\* the push handler; returns the cache
handle_order_update(cache, update) ==
    IF ~update.hasId
    THEN cache
    ELSE IF update.order_state = "open" \/ update.order_state = "untriggered"
    THEN IF update.complete
         THEN MapPut(cache, update.order_id, ParseOrder(update))
         ELSE cache
    ELSE MapErase(cache, update.order_id)

----------------------------------------------------------------------------
(* OrderManager: the operations as actions *)

Apply(r) ==
    /\ open_orders_' = r.cache
    /\ authenticated_' = r.sess.authenticated
    /\ credentials_' = r.sess.credentials
    /\ lastReqs' = r.reqs
    /\ UNCHANGED <<positions_, extraVars, upstreamVars, systemVars, serverVars, orderbooks_, now>>

PlaceOrder(instrument_name, type, direction, amount, price, time_in_force, authReply, reply) ==
    LET r == place_order(open_orders_, CurrentSession, instrument_name, type, direction,
                         amount, price, time_in_force, authReply, reply)
    IN /\ Apply(r)
       /\ last' = [op |-> "place_order", instrument_name |-> instrument_name,
                   type |-> type, direction |-> direction, amount |-> amount,
                   price |-> price, time_in_force |-> time_in_force, ret |-> r.ret,
                   reply |-> reply.kind, authReply |-> authReply.kind]

CancelOrder(order_id, authReply, reply) ==
    LET r == cancel_order(open_orders_, CurrentSession, order_id, authReply, reply)
    IN /\ Apply(r)
       /\ last' = [op |-> "cancel_order", order_id |-> order_id, ret |-> r.ret,
                   reply |-> reply.kind, authReply |-> authReply.kind]

ModifyOrder(order_id, amount, price, authReply, reply) ==
    LET r == modify_order(open_orders_, CurrentSession, order_id, amount, price,
                          authReply, reply)
    IN /\ Apply(r)
       /\ last' = [op |-> "modify_order", order_id |-> order_id, amount |-> amount,
                   price |-> price, ret |-> r.ret, reply |-> reply.kind,
                   authReply |-> authReply.kind]

GetOpenOrders(authReply, reply) ==
    LET r == get_open_orders(open_orders_, CurrentSession, authReply, reply)
    IN /\ Apply(r)
       /\ last' = [op |-> "get_open_orders", ret |-> r.ret]

GetOrder(order_id, authReply, reply) ==
    LET r == get_order(open_orders_, CurrentSession, order_id, authReply, reply)
    IN /\ Apply(r)
       /\ last' = [op |-> "get_order", order_id |-> order_id, ret |-> r.ret]

HandleOrderUpdate(update) ==
    /\ open_orders_' = handle_order_update(open_orders_, update)
    /\ lastReqs' = <<>>
    /\ last' = [op |-> "handle_order_update", update |-> update,
                had |-> update.order_id \in DOMAIN open_orders_]
    /\ UNCHANGED <<positions_, extraVars, upstreamVars, systemVars, serverVars, orderbooks_, sessionVars>>

PlaceError == [kind |-> "error", order_id |-> "", creation_timestamp |-> 0]
SimpleError == [kind |-> "error"]
OrderError == [kind |-> "error", order |-> VenueOrder("o1", "open", TRUE)]
OrderListError == [kind |-> "error", orders |-> <<>>]

NextOrders ==
    \/ \E authReply \in AuthReplies : Authenticate(authReply)
    \/ \E a \in PlaceInputs, authReply \in RefreshRepliesConsumed :
          \E reply \in Consumed(place_order(open_orders_, CurrentSession, a.instrument_name,
                                            a.type, a.direction, a.amount, a.price,
                                            a.time_in_force, authReply, PlaceError).reqs,
                                PlaceReplies, PlaceError) :
             PlaceOrder(a.instrument_name, a.type, a.direction, a.amount, a.price,
                        a.time_in_force, authReply, reply)
    \/ \E order_id \in OrderIdArgs, authReply \in RefreshRepliesConsumed :
          \E reply \in Consumed(cancel_order(open_orders_, CurrentSession, order_id,
                                             authReply, SimpleError).reqs,
                                SimpleReplies, SimpleError) :
             CancelOrder(order_id, authReply, reply)
    \/ \E order_id \in OrderIdArgs, m \in ModifyInputs, authReply \in RefreshRepliesConsumed :
          \E reply \in Consumed(modify_order(open_orders_, CurrentSession, order_id,
                                             m[1], m[2], authReply, SimpleError).reqs,
                                SimpleReplies, SimpleError) :
             ModifyOrder(order_id, m[1], m[2], authReply, reply)
    \/ \E authReply \in RefreshRepliesConsumed :
          \E reply \in Consumed(get_open_orders(open_orders_, CurrentSession, authReply,
                                                OrderListError).reqs,
                                OrderListReplies, OrderListError) :
             GetOpenOrders(authReply, reply)
    \/ \E order_id \in OrderIdArgs, authReply \in RefreshRepliesConsumed :
          \E reply \in Consumed(get_order(open_orders_, CurrentSession, order_id,
                                          authReply, OrderError).reqs,
                                {r \in OrderReplies :
                                    r.kind = "error" \/ r.order.order_id = order_id},
                                OrderError) :
             GetOrder(order_id, authReply, reply)
    \/ \E update \in VenueOrders : HandleOrderUpdate(update)

SpecOrders == Init /\ [][NextOrders]_vars

----------------------------------------------------------------------------
(* Properties of the order manager *)

NonTerminal == {"open", "untriggered"}

\* C8: every order held in the open-orders cache has a recorded status of open
\* or untriggered, whatever the venue replies and pushes.
C8_CachedOrdersAreOpen ==
    \A id \in DOMAIN open_orders_ : open_orders_[id].status \in NonTerminal

\* the calls of place_order that C9 names
PlaceViolatesPrecondition(call) ==
    \/ call.amount = 0
    \/ call.amount < 0
    \/ call.instrument_name = EmptyString
    \/ call.type = "LIMIT" /\ call.price = 0

\* C9: place_order with amount = 0, amount < 0, an empty instrument or LIMIT
\* with price = 0 returns the empty id, and modify_order with amount = 0 and
\* price = 0 returns false; no upstream request is sent and the open-orders
\* cache is unchanged.
C9_PreconditionFailuresTouchNothing ==
    [][ /\ (last'.op = "place_order" /\ PlaceViolatesPrecondition(last')) =>
              /\ last'.ret = ""
              /\ lastReqs' = <<>>
              /\ open_orders_' = open_orders_
        /\ (last'.op = "modify_order" /\ last'.amount = 0 /\ last'.price = 0) =>
              /\ last'.ret = FALSE
              /\ lastReqs' = <<>>
              /\ open_orders_' = open_orders_ ]_vars

\* a rejected modify_order of a cached order, on a session whose token is valid
C9_Witness ==
    /\ last.op = "modify_order"
    /\ last.amount = 0
    /\ last.price = 0
    /\ last.order_id \in DOMAIN open_orders_
    /\ authenticated_
    /\ now < credentials_.token_expiry
    /\ last.ret = FALSE

\* C10: place_order with type STOP_LIMIT and price <= 0 returns the empty id,
\* sends no private/buy request and leaves the open-orders cache unchanged.
C10_StopLimitNeedsPrice ==
    [][ (last'.op = "place_order" /\ last'.type = "STOP_LIMIT" /\ last'.price <= 0) =>
            /\ last'.ret = ""
            /\ lastReqs' = <<>>
            /\ open_orders_' = open_orders_ ]_vars

\* C12: after place_order returns a non-empty id X the cache holds X with status
\* open and the requested instrument, type, direction, amount, price and time in
\* force; after a successful modify_order(X, a, p) of a cached order the order
\* has amount a and price p where they were given as > 0 and its other fields
\* (but for the update time) are as before; after a successful cancel_order(X)
\* the cache does not hold X.
C12_OrderLifecycle ==
    [][ /\ (last'.op = "place_order" /\ last'.ret # "") =>
              /\ last'.ret \in DOMAIN open_orders_'
              /\ LET o == open_orders_'[last'.ret]
                 IN /\ o.order_id = last'.ret
                    /\ o.status = "open"
                    /\ o.instrument_name = last'.instrument_name
                    /\ o.type = last'.type
                    /\ o.direction = last'.direction
                    /\ o.amount = last'.amount
                    /\ o.price = last'.price
                    /\ o.time_in_force = last'.time_in_force
        /\ (/\ last'.op = "modify_order"
            /\ last'.ret = TRUE
            /\ last'.order_id \in DOMAIN open_orders_) =>
              /\ last'.order_id \in DOMAIN open_orders_'
              /\ LET old == open_orders_[last'.order_id]
                     new == open_orders_'[last'.order_id]
                 IN new = [old EXCEPT
                             !.amount = IF last'.amount > 0 THEN last'.amount ELSE @,
                             !.price = IF last'.price > 0 THEN last'.price ELSE @,
                             !.last_updated_at = new.last_updated_at]
        /\ (last'.op = "cancel_order" /\ last'.ret = TRUE) =>
              last'.order_id \notin DOMAIN open_orders_' ]_vars

\* a placed limit order whose amount alone has been modified
C12_Witness ==
    /\ last.op = "modify_order"
    /\ last.ret = TRUE
    /\ last.amount = 2
    /\ last.price = 0
    /\ last.order_id \in DOMAIN open_orders_
    /\ LET o == open_orders_[last.order_id]
       IN o.amount = 2 /\ o.price = 1 /\ o.type = "LIMIT" /\ o.direction = "BUY"

C29_GetOrderCachesOpenAndUntriggered ==
    [][ (last'.op = "get_order" /\ last'.order_id # "") =>
            IF last'.order_id \in DOMAIN open_orders_
            THEN /\ last'.ret = <<open_orders_[last'.order_id]>>
                 /\ lastReqs' = <<>>
                 /\ open_orders_' = open_orders_
            ELSE last'.ret # <<>> =>
                    (last'.order_id \in DOMAIN open_orders_'
                        <=> last'.ret[1].status \in NonTerminal) ]_vars

\* the failures C30 names: the venue's reply to the request is an error (or
\* the transport failed), the session is not authenticated, or the token has
\* expired and the refresh failed
OrderCallFails(call) ==
    \/ call.reply = "error"
    \/ ~authenticated_
    \/ now >= credentials_.token_expiry /\ call.authReply = "error"

\* C30: when the venue replies with an error, the transport fails or the
\* session is not authenticated, place_order returns the empty id,
\* cancel_order and modify_order return false, and the open-orders cache is
\* unchanged.
C30_FailuresLeaveCache ==
    [][ (last'.op \in {"place_order", "cancel_order", "modify_order"}
         /\ OrderCallFails(last')) =>
            /\ last'.ret = IF last'.op = "place_order" THEN "" ELSE FALSE
            /\ open_orders_' = open_orders_ ]_vars

\* the venue refused the cancel of a cached order on a session whose token
\* is valid, and the order is still cached
C30_Witness ==
    /\ last.op = "cancel_order"
    /\ last.reply = "error"
    /\ last.ret = FALSE
    /\ authenticated_
    /\ now < credentials_.token_expiry
    /\ last.order_id \in DOMAIN open_orders_

----------------------------------------------------------------------------
(* ApiClient: the session on its own, with the clock advancing *)

MaxTime == 2

SessionAuthReplies ==
    {AuthError, AuthPartial("acc3"), AuthOk("acc1", "ref1", 1), AuthOk("acc2", "ref2", 0)}

PrivateMethods == {"private/get_order_state", "private/buy"}

PrivateRequest(method, authReply, reply) ==
    /\ LET r == private_request(CurrentSession, [method |-> method], authReply, reply)
       IN /\ authenticated_' = r.sess.authenticated
          /\ credentials_' = r.sess.credentials
          /\ lastReqs' = r.reqs
          /\ last' = [op |-> "private_request", method |-> method,
                      authReply |-> authReply, at |-> now, resp |-> r.resp]
    /\ UNCHANGED <<positions_, extraVars, upstreamVars, systemVars, serverVars, orderbooks_, open_orders_, now>>

\* std::chrono::system_clock moves on
Tick ==
    /\ now < MaxTime
    /\ now' = now + 1
    /\ lastReqs' = <<>>
    /\ last' = [op |-> "tick"]
    /\ UNCHANGED <<positions_, extraVars, upstreamVars, systemVars, serverVars, orderbooks_, open_orders_, authenticated_, credentials_>>

NextSession ==
    \/ \E authReply \in SessionAuthReplies : Authenticate(authReply)
    \/ \E method \in PrivateMethods, authReply \in SessionAuthReplies,
          reply \in SimpleReplies : PrivateRequest(method, authReply, reply)
    \/ Tick

SpecSession == Init /\ [][NextSession]_vars

RefreshRequest(credentials) ==
    [method |-> "public/auth", grant_type |-> "refresh_token",
     refresh_token |-> credentials.refresh_token]

\* C13: with the session authenticated and now >= token_expiry (equality
\* included) private_request(m) sends public/auth with grant_type
\* refresh_token first and, when the refresh succeeds, m with the new
\* access_token after it, and the session ends authenticated with the new
\* expiry; with now < token_expiry it sends m alone.
C13_RefreshBeforeRequest ==
    [][ (last'.op = "private_request" /\ authenticated_) =>
          LET m == [method |-> last'.method]
          IN IF now >= credentials_.token_expiry
             THEN /\ lastReqs' # <<>>
                  /\ lastReqs'[1] = RefreshRequest(credentials_)
                  /\ last'.authReply.kind = "ok" =>
                        /\ lastReqs' = <<RefreshRequest(credentials_),
                                         [params |-> m,
                                          access_token |-> last'.authReply.access_token]>>
                        /\ authenticated_'
                        /\ credentials_'.access_token = last'.authReply.access_token
                        /\ credentials_'.token_expiry = now + last'.authReply.expires_in
             ELSE /\ lastReqs' = <<[params |-> m,
                                    access_token |-> credentials_.access_token]>>
                  /\ UNCHANGED <<authenticated_, credentials_>> ]_vars

\* a refresh at the very instant of expiry, later than the start of the clock
C13_Witness ==
    /\ last.op = "private_request"
    /\ Len(lastReqs) = 2
    /\ last.at > 0
    /\ lastReqs[1].refresh_token = "ref1"
    /\ lastReqs[2].access_token = "acc2"
    /\ authenticated_
    /\ credentials_.token_expiry = last.at

\* C14: private_request on a session that is not authenticated returns
\* success = false with error_message "Not authenticated" and sends nothing.
C14_NotAuthenticatedSendsNothing ==
    [][ (last'.op = "private_request" /\ ~authenticated_) =>
          /\ last'.resp.success = FALSE
          /\ last'.resp.error_message = "Not authenticated"
          /\ lastReqs' = <<>>
          /\ UNCHANGED <<authenticated_, credentials_>> ]_vars

\* the call after a failed refresh
C14_Witness ==
    /\ last.op = "private_request"
    /\ last.resp.error_message = "Not authenticated"
    /\ lastReqs = <<>>
    /\ ~authenticated_
    /\ credentials_.refresh_token # ""

\* C15: a failed refresh inside private_request leaves the session
\* unauthenticated, and the call fails having sent the refresh alone; while the
\* session is unauthenticated a private_request sends nothing and fails with
\* "Not authenticated", and only a successful authenticate sets the flag again.
C15_RefreshFailureIsFinal ==
    [][ /\ (/\ last'.op = "private_request"
            /\ authenticated_
            /\ now >= credentials_.token_expiry
            /\ last'.authReply.kind # "ok") =>
              /\ ~authenticated_'
              /\ last'.resp.success = FALSE
              /\ last'.resp.error_message = "Failed to refresh token"
              /\ lastReqs' = <<RefreshRequest(credentials_)>>
        /\ (last'.op = "private_request" /\ ~authenticated_) =>
              /\ ~authenticated_'
              /\ lastReqs' = <<>>
              /\ last'.resp.error_message = "Not authenticated"
        /\ (~authenticated_ /\ authenticated_') =>
              (last'.op = "authenticate" /\ last'.ret = TRUE) ]_vars

C15_Witness ==
    /\ last.op = "private_request"
    /\ last.resp.error_message = "Failed to refresh token"
    /\ last.authReply.kind = "partial"
    /\ Len(lastReqs) = 1
    /\ ~authenticated_
    /\ credentials_.access_token = "acc3"

\* C16: an authenticated session holds a refresh_token; the flag becomes true
\* only through a successful authenticate, which sets token_expiry, and false
\* only through a failed refresh; token_expiry is written only by a successful
\* authenticate or refresh.
C16_CredentialInvariant ==
    [][ /\ authenticated_' => credentials_'.refresh_token # ""
        /\ (~authenticated_ /\ authenticated_') =>
              /\ last'.op = "authenticate"
              /\ last'.ret = TRUE
              /\ credentials_'.token_expiry = now + last'.reply.expires_in
        /\ (authenticated_ /\ ~authenticated_') =>
              /\ last'.op = "private_request"
              /\ last'.resp.error_message = "Failed to refresh token"
        /\ credentials_'.token_expiry # credentials_.token_expiry =>
              \/ last'.op = "authenticate" /\ last'.ret = TRUE
              \/ /\ last'.op = "private_request"
                 /\ last'.authReply.kind = "ok"
                 /\ Len(lastReqs') = 2 ]_vars

\* authenticated again after a failed refresh had dropped the flag
C16_Witness ==
    /\ last.op = "authenticate"
    /\ last.ret = TRUE
    /\ last.at = MaxTime
    /\ authenticated_
    /\ credentials_.refresh_token = "ref2"
    /\ credentials_.token_expiry = MaxTime

----------------------------------------------------------------------------
(* ApiClient: the upstream channel.  websocket_message_handler runs on the  *)
(* channel's thread, process_message_queue on the dispatch worker, and      *)
(* subscribe/unsubscribe on a caller's thread under websocket_mutex_.       *)
(* channel_callbacks_ is read by the handler and the worker without that    *)
(* mutex: a lookup made while subscribe or unsubscribe is writing the map   *)
(* races with the write and may or may not find the entry.                  *)

MaxPush == 3

UpChannels == {"book.BTC-PERPETUAL.100ms", "trades.BTC-PERPETUAL.100ms"}

\* the outcomes of channel_callbacks_.find(channel)
Lookup(channel) ==
    IF writer # <<>> THEN BOOLEAN ELSE {channel \in channel_callbacks_}

ConnectWebsocket ==
    /\ writer = <<>>
    /\ ~websocket_connected_
    /\ websocket_connected_' = TRUE
    /\ lastReqs' = <<>>
    /\ last' = [op |-> "connect_websocket", ret |-> TRUE]
    /\ UNCHANGED <<channel_callbacks_, message_queue_, writer, worker, received,
                   dispatched, serverVars, sessionVars, systemVars, orderbooks_,
                   open_orders_, positions_, extraVars>>

DisconnectWebsocket ==
    /\ writer = <<>>
    /\ websocket_connected_
    /\ websocket_connected_' = FALSE
    /\ lastReqs' = <<>>
    /\ last' = [op |-> "disconnect_websocket"]
    /\ UNCHANGED <<channel_callbacks_, message_queue_, writer, worker, received,
                   dispatched, serverVars, sessionVars, systemVars, orderbooks_,
                   open_orders_, positions_, extraVars>>

\* subscribe and unsubscribe take websocket_mutex_; a call on a channel that
\* is not connected returns false at once
UpstreamCall(op, channel) ==
    /\ writer = <<>>
    /\ IF websocket_connected_
       THEN /\ writer' = <<[op |-> op, channel |-> channel]>>
            /\ last' = [op |-> op, channel |-> channel, step |-> "lock"]
       ELSE /\ writer' = writer
            /\ last' = [op |-> op, channel |-> channel, ret |-> FALSE]
    /\ lastReqs' = <<>>
    /\ UNCHANGED <<websocket_connected_, channel_callbacks_, message_queue_, worker,
                   received, dispatched, serverVars, sessionVars, systemVars,
                   orderbooks_, open_orders_, positions_, extraVars>>

\* the callbacks after subscribe(channel): stored before the request is sent
subscribe(callbacks, channel, sent) == callbacks \cup {channel}

\* the callbacks after unsubscribe(channel): erased when the request was sent
unsubscribe(callbacks, channel, sent) == IF sent THEN callbacks \ {channel} ELSE callbacks

\* the rest of subscribe/unsubscribe; sent: the transport took the request
UpstreamReturn(sent) ==
    /\ writer # <<>>
    /\ LET w == writer[1]
           method == IF w.op = "subscribe" THEN "public/subscribe" ELSE "public/unsubscribe"
       IN /\ channel_callbacks_' =
                IF w.op = "subscribe"
                THEN subscribe(channel_callbacks_, w.channel, sent)
                ELSE unsubscribe(channel_callbacks_, w.channel, sent)
          /\ lastReqs' = IF sent THEN <<[method |-> method, channel |-> w.channel]>> ELSE <<>>
          /\ last' = [op |-> w.op, channel |-> w.channel, ret |-> sent]
    /\ writer' = <<>>
    /\ UNCHANGED <<websocket_connected_, message_queue_, worker, received, dispatched,
                   serverVars, sessionVars, systemVars, orderbooks_, open_orders_,
                   positions_, extraVars>>

\* the queue after websocket_message_handler has handled a frame; method is
\* "subscription" for a push, anything else for the other frames
websocket_message_handler(queue, method, channel, data, found) ==
    IF method = "subscription" /\ found
    THEN Append(queue, [channel |-> channel, data |-> data])
    ELSE queue

\* a frame arrives from the venue; a push carries its number in receive order
\* as its data
Receive(method, channel, found) ==
    /\ websocket_connected_
    /\ Len(received) < MaxPush
    /\ received' = IF method = "subscription" THEN Append(received, channel) ELSE received
    /\ message_queue_' = websocket_message_handler(message_queue_, method, channel,
                                                   Len(received) + 1, found)
    /\ lastReqs' = <<>>
    /\ last' = [op |-> "websocket_message_handler", method |-> method,
                channel |-> channel, found |-> found]
    /\ UNCHANGED <<websocket_connected_, channel_callbacks_, writer, worker, dispatched,
                   serverVars, sessionVars, systemVars, orderbooks_, open_orders_,
                   positions_, extraVars>>

\* message_queue_.front() followed by message_queue_.pop(), as taken by the worker
front_pop_takesBack(queue) ==
    [message |-> queue[Len(queue)], queue |-> SubSeq(queue, 1, Len(queue) - 1)]

front_pop(queue) ==
    [message |-> Head(queue), queue |-> Tail(queue)]

\* process_message_queue, under queue_mutex_: take the next message
WorkerTake ==
    /\ worker = <<>>
    /\ message_queue_ # <<>>
    /\ worker' = <<front_pop(message_queue_).message>>
    /\ message_queue_' = front_pop(message_queue_).queue
    /\ lastReqs' = <<>>
    /\ last' = [op |-> "process_message_queue", step |-> "take"]
    /\ UNCHANGED <<websocket_connected_, channel_callbacks_, writer, received, dispatched,
                   serverVars, sessionVars, systemVars, orderbooks_, open_orders_,
                   positions_, extraVars>>

\* process_message_queue, outside the lock: find the callback and call it
WorkerDispatch(found) ==
    /\ worker # <<>>
    /\ dispatched' = IF found THEN Append(dispatched, worker[1]) ELSE dispatched
    /\ worker' = <<>>
    /\ lastReqs' = <<>>
    /\ last' = [op |-> "process_message_queue", step |-> "dispatch", found |-> found]
    /\ UNCHANGED <<websocket_connected_, channel_callbacks_, message_queue_, writer,
                   received, serverVars, sessionVars, systemVars, orderbooks_,
                   open_orders_, positions_, extraVars>>

FrameMethods == {"subscription", "other"}

NextUpstream ==
    \/ ConnectWebsocket
    \/ DisconnectWebsocket
    \/ \E op \in {"subscribe", "unsubscribe"}, channel \in UpChannels : UpstreamCall(op, channel)
    \/ \E sent \in BOOLEAN : UpstreamReturn(sent)
    \/ \E method \in FrameMethods, channel \in UpChannels :
          \E found \in Lookup(channel) : Receive(method, channel, found)
    \/ WorkerTake
    \/ \E found \in (IF worker = <<>> THEN {FALSE} ELSE Lookup(worker[1].channel)) :
          WorkerDispatch(found)

SpecUpstream == Init /\ [][NextUpstream]_vars

\* C17: the callback of a channel is invoked on pushes of that channel only,
\* in the order in which they were received, and on no push twice.
C17_DispatchInReceiveOrder ==
    /\ \A i \in 1..Len(dispatched) :
          /\ dispatched[i].data \in 1..Len(received)
          /\ received[dispatched[i].data] = dispatched[i].channel
    /\ \A i, j \in 1..Len(dispatched) :
          (i < j /\ dispatched[i].channel = dispatched[j].channel)
             => dispatched[i].data < dispatched[j].data

\* two pushes of a channel dispatched, a push of the other channel received
\* between them having been dropped or not queued
C17_Witness ==
    /\ Len(dispatched) = 2
    /\ dispatched[1].channel = dispatched[2].channel
    /\ dispatched[1].data = 1
    /\ dispatched[2].data = 3
    /\ Len(message_queue_) = 0
    /\ received[2] # received[1]

----------------------------------------------------------------------------
(* TradingSystem: start, stop and wait.  stop runs on any of Threads (the    *)
(* main thread, a signal handler, another thread), one step per statement.   *)

MaxStarts == 1

SystemUnchanged ==
    UNCHANGED <<serverVars, sessionVars, orderbooks_, open_orders_, positions_, extraVars,
                channel_callbacks_, message_queue_, writer, worker, received, dispatched>>

\* start(): connect the upstream channel, start the server, set the flag
Start ==
    /\ ~running_
    /\ starts < MaxStarts
    /\ \A t \in Threads : stopper[t] = "idle"
    /\ websocket_connected_' = TRUE
    /\ server_running_' = TRUE
    /\ running_' = TRUE
    /\ starts' = starts + 1
    /\ disconnects' = 0
    /\ serverStops' = 0
    /\ lastReqs' = <<>>
    /\ last' = [op |-> "start", ret |-> TRUE]
    /\ UNCHANGED <<stopper, waiter>>
    /\ SystemUnchanged

StopStep(t, step, pc) ==
    /\ stopper' = [stopper EXCEPT ![t] = pc]
    /\ lastReqs' = <<>>
    /\ last' = [op |-> "stop", thread |-> t, step |-> step, pc |-> pc]
    /\ SystemUnchanged

\* if (!running_) return;
StopEnter(t) ==
    /\ stopper[t] = "idle"
    /\ StopStep(t, "enter", IF running_ THEN "disconnect" ELSE "idle")
    /\ UNCHANGED <<running_, server_running_, websocket_connected_, waiter, starts,
                   disconnects, serverStops>>

\* api_client_->disconnect_websocket(), under websocket_mutex_
StopDisconnect(t) ==
    /\ stopper[t] = "disconnect"
    /\ StopStep(t, "disconnect_websocket", "server_check")
    /\ websocket_connected_' = FALSE
    /\ disconnects' = IF websocket_connected_ THEN disconnects + 1 ELSE disconnects
    /\ UNCHANGED <<running_, server_running_, waiter, starts, serverStops>>

\* WebSocketServer::stop: if (!running_) return;
StopServerCheck(t) ==
    /\ stopper[t] = "server_check"
    /\ StopStep(t, "server_check", IF server_running_ THEN "server_stop" ELSE "clear")
    /\ UNCHANGED <<running_, server_running_, websocket_connected_, waiter, starts,
                   disconnects, serverStops>>

\* WebSocketServer::stop: server_->stop() and the join of the server thread; a
\* join of a thread that another caller joins throws or returns
StopServerStop(t, joined) ==
    /\ stopper[t] = "server_stop"
    /\ joined \/ serverStops > 0
    /\ StopStep(t, "server_stop", IF joined THEN "server_flag" ELSE "clear")
    /\ serverStops' = serverStops + 1
    /\ UNCHANGED <<running_, server_running_, websocket_connected_, waiter, starts,
                   disconnects>>

\* WebSocketServer::stop: running_ = false;
StopServerFlag(t) ==
    /\ stopper[t] = "server_flag"
    /\ StopStep(t, "server_flag", "clear")
    /\ server_running_' = FALSE
    /\ UNCHANGED <<running_, websocket_connected_, waiter, starts, disconnects,
                   serverStops>>

\* running_ = false;
StopClear(t) ==
    /\ stopper[t] = "clear"
    /\ StopStep(t, "clear", "notify")
    /\ running_' = FALSE
    /\ UNCHANGED <<server_running_, websocket_connected_, waiter, starts, disconnects,
                   serverStops>>

\* wait_condition_.notify_all(): wakes the threads blocked on the condition
StopNotify(t) ==
    /\ stopper[t] = "notify"
    /\ StopStep(t, "notify_all", "idle")
    /\ waiter' = IF waiter = "blocked" THEN "woken" ELSE waiter
    /\ UNCHANGED <<running_, server_running_, websocket_connected_, starts, disconnects,
                   serverStops>>

WaitStep(step, pc) ==
    /\ waiter' = pc
    /\ lastReqs' = <<>>
    /\ last' = [op |-> "wait", step |-> step, pc |-> pc]
    /\ UNCHANGED <<running_, server_running_, websocket_connected_, stopper, starts,
                   disconnects, serverStops>>
    /\ SystemUnchanged

\* wait(): lock wait_mutex_ and evaluate the predicate !running_
WaitEnter ==
    /\ waiter = "idle"
    /\ WaitStep("enter", IF running_ THEN "checked" ELSE "idle")

\* condition_variable::wait: release the mutex and block
WaitBlock ==
    /\ waiter = "checked"
    /\ WaitStep("block", "blocked")

\* woken: take the mutex and evaluate the predicate again
WaitWake ==
    /\ waiter = "woken"
    /\ WaitStep("wake", IF running_ THEN "checked" ELSE "idle")

StopProgress(t) ==
    \/ StopDisconnect(t)
    \/ StopServerCheck(t)
    \/ \E joined \in BOOLEAN : StopServerStop(t, joined)
    \/ StopServerFlag(t)
    \/ StopClear(t)
    \/ StopNotify(t)

WaitProgress == WaitBlock \/ WaitWake

NextSystem ==
    \/ Start
    \/ \E t \in Threads : StopEnter(t)
    \/ \E t \in Threads : StopProgress(t)
    \/ WaitEnter
    \/ WaitProgress

SpecSystem == Init /\ [][NextSystem]_vars

\* every thread that has begun a step sequence goes on
SpecSystemLive ==
    /\ Init
    /\ [][NextSystem]_vars
    /\ \A t \in Threads : WF_vars(StopProgress(t))
    /\ WF_vars(WaitProgress)

\* C18: however calls of stop() overlap or follow each other, the upstream
\* channel is disconnected and the server stopped at most once after a start,
\* and a stop() on a system that is not running changes nothing.
C18_StopAtMostOnce ==
    [][ /\ disconnects' <= 1
        /\ serverStops' <= 1
        /\ (last'.op = "stop" /\ last'.step = "enter" /\ ~running_) =>
              UNCHANGED <<systemVars, upstreamVars>> ]_vars

StopCompleted ==
    /\ starts > 0
    /\ ~running_
    /\ \A t \in Threads : stopper[t] = "idle"

\* C19: a thread that is in wait() when stop() has completed on a running
\* system eventually returns from wait().
C19_WaiterReturns ==
    (waiter # "idle" /\ StopCompleted) ~> (waiter = "idle")

----------------------------------------------------------------------------
(* The locks.  A thread takes a std::lock_guard when it enters the scope and
   gives it up when it leaves the scope; between the two every call it makes
   is a step of its own. *)

\* the calls that take ApiClient::auth_mutex_
AuthCalls == {"authenticate", "private_request"}
LockAuthReplies == {AuthError, AuthOk("acc1", "ref1", 1)}

LocksUnchanged ==
    UNCHANGED <<serverVars, upstreamVars, systemVars, broken, server_, trackerVars, clientVars, now,
                orderbooks_, open_orders_, positions_>>

\* a thread calls WebSocketServer::broadcast_to_channel
FanoutCall(t, channel, payload) ==
    /\ caller[t] = Idle
    /\ caller' = [caller EXCEPT ![t] = [op |-> "broadcast_to_channel", pc |-> "lock",
                                         channel |-> channel, payload |-> payload]]
    /\ last' = [op |-> "call", thread |-> t]
    /\ UNCHANGED <<subscriptions_mutex_, auth_mutex_, sessionVars, lastReqs>>
    /\ LocksUnchanged

\* std::lock_guard lock(subscriptions_mutex_) and channel_subscriptions_.find
FanoutLock(t) ==
    /\ caller[t].op = "broadcast_to_channel"
    /\ caller[t].pc = "lock"
    /\ subscriptions_mutex_ = <<>>
    /\ subscriptions_mutex_' = <<t>>
    /\ caller' = [caller EXCEPT ![t] =
                     [op |-> "broadcast_to_channel", pc |-> "loop",
                      channel |-> caller[t].channel, payload |-> caller[t].payload,
                      todo |-> Subscribers(channel_subscriptions_, caller[t].channel)]]
    /\ last' = [op |-> "lock", thread |-> t]
    /\ UNCHANGED <<auth_mutex_, sessionVars, lastReqs>>
    /\ LocksUnchanged

\* the loop reaches the next subscriber and calls server_->send for it
FanoutSend(t) ==
    /\ caller[t].op = "broadcast_to_channel"
    /\ caller[t].pc = "loop"
    /\ caller[t].todo # {}
    /\ LET hdl == CHOOSE c \in caller[t].todo : \A d \in caller[t].todo : c <= d
       IN caller' = [caller EXCEPT ![t] =
                       [op |-> "broadcast_to_channel", pc |-> "send",
                        channel |-> caller[t].channel, payload |-> caller[t].payload,
                        todo |-> caller[t].todo \ {hdl}, hdl |-> hdl]]
    /\ last' = [op |-> "send", thread |-> t]
    /\ UNCHANGED <<subscriptions_mutex_, auth_mutex_, sessionVars, lastReqs>>
    /\ LocksUnchanged

\* server_->send returns or throws into the catch inside the loop
FanoutSent(t) ==
    /\ caller[t].op = "broadcast_to_channel"
    /\ caller[t].pc = "send"
    /\ caller' = [caller EXCEPT ![t] =
                     [op |-> "broadcast_to_channel", pc |-> "loop",
                      channel |-> caller[t].channel, payload |-> caller[t].payload,
                      todo |-> caller[t].todo]]
    /\ last' = [op |-> "sent", thread |-> t, hdl |-> caller[t].hdl]
    /\ UNCHANGED <<subscriptions_mutex_, auth_mutex_, sessionVars, lastReqs>>
    /\ LocksUnchanged

\* the loop is over and the scope of the lock_guard is left
FanoutUnlock(t) ==
    /\ caller[t].op = "broadcast_to_channel"
    /\ caller[t].pc = "loop"
    /\ caller[t].todo = {}
    /\ subscriptions_mutex_' = <<>>
    /\ caller' = [caller EXCEPT ![t] = Idle]
    /\ last' = [op |-> "unlock", thread |-> t]
    /\ UNCHANGED <<auth_mutex_, sessionVars, lastReqs>>
    /\ LocksUnchanged

\* the server thread: its handlers take subscriptions_mutex_ for the time of
\* a table update
ServerAccept(hdl) == OnOpen(hdl)
ServerFrame(hdl, message, reply) ==
    /\ subscriptions_mutex_ = <<>>
    /\ OnMessage(hdl, message, reply)

\* a thread calls ApiClient::authenticate or ApiClient::private_request
AuthCall(t, op) ==
    /\ caller[t] = Idle
    /\ caller' = [caller EXCEPT ![t] = [op |-> op, pc |-> "lock"]]
    /\ last' = [op |-> "call", thread |-> t]
    /\ UNCHANGED <<subscriptions_mutex_, auth_mutex_, sessionVars, lastReqs>>
    /\ LocksUnchanged

\* std::lock_guard lock(auth_mutex_); private_request returns at once when
\* the session is not authenticated, every other path goes to the network
AuthLock(t) ==
    /\ caller[t].op \in AuthCalls
    /\ caller[t].pc = "lock"
    /\ auth_mutex_ = <<>>
    /\ auth_mutex_' = <<t>>
    /\ caller' = [caller EXCEPT ![t] =
                     [op |-> caller[t].op,
                      pc |-> IF caller[t].op = "private_request" /\ ~authenticated_
                             THEN "return" ELSE "http"]]
    /\ last' = [op |-> "lock", thread |-> t]
    /\ UNCHANGED <<subscriptions_mutex_, sessionVars, lastReqs>>
    /\ LocksUnchanged

\* public_request returns with the venue's replies
AuthHttp(t, authReply, reply) ==
    /\ caller[t].op \in AuthCalls
    /\ caller[t].pc = "http"
    /\ IF caller[t].op = "authenticate"
       THEN LET r == authenticate(CurrentSession, authReply)
            IN /\ credentials_' = r.sess.credentials
               /\ authenticated_' = r.sess.authenticated
               /\ lastReqs' = <<[method |-> "public/auth",
                                 grant_type |-> "client_credentials"]>>
       ELSE LET r == private_request(CurrentSession, [method |-> "private/get_order_state"],
                                     authReply, reply)
            IN /\ credentials_' = r.sess.credentials
               /\ authenticated_' = r.sess.authenticated
               /\ lastReqs' = r.reqs
    /\ caller' = [caller EXCEPT ![t] = [op |-> caller[t].op, pc |-> "return"]]
    /\ last' = [op |-> "http", thread |-> t]
    /\ UNCHANGED <<subscriptions_mutex_, auth_mutex_>>
    /\ LocksUnchanged

\* the call returns and the scope of the lock_guard is left
AuthUnlock(t) ==
    /\ caller[t].op \in AuthCalls
    /\ caller[t].pc = "return"
    /\ auth_mutex_' = <<>>
    /\ caller' = [caller EXCEPT ![t] = Idle]
    /\ last' = [op |-> "unlock", thread |-> t]
    /\ UNCHANGED <<subscriptions_mutex_, sessionVars, lastReqs>>
    /\ LocksUnchanged

NextLocks ==
    \/ \E hdl \in Conns : ServerAccept(hdl)
    \/ \E hdl \in Conns :
          \E reply \in RepliesConsumed(Request("subscribe", ChanTrades)) :
             ServerFrame(hdl, Request("subscribe", ChanTrades), reply)
    \/ \E t \in Threads, channel \in Channels, payload \in Payloads :
          FanoutCall(t, channel, payload)
    \/ \E t \in Threads : FanoutLock(t)
    \/ \E t \in Threads : FanoutSend(t)
    \/ \E t \in Threads : FanoutSent(t)
    \/ \E t \in Threads : FanoutUnlock(t)
    \/ \E t \in Threads, op \in AuthCalls : AuthCall(t, op)
    \/ \E t \in Threads : AuthLock(t)
    \/ \E t \in Threads, authReply \in LockAuthReplies, reply \in SimpleReplies :
          AuthHttp(t, authReply, reply)
    \/ \E t \in Threads : AuthUnlock(t)

SpecLocks == Init /\ [][NextLocks]_vars

\* C26: no thread is inside server_->send while it holds the subscriptions
\* lock: broadcast_to_channel gives the lock up before it sends.
C26_NoSendUnderSubscriptionsLock ==
    \A t \in Threads : caller[t].pc = "send" => subscriptions_mutex_ # <<t>>

\* C27: no thread is inside an HTTPS round trip while it holds the auth
\* mutex, so a private_request of another thread never waits for the mutex
\* while a round trip is under way.
C27_RoundTripDoesNotBlockOthers ==
    \A t, u \in Threads :
       (/\ caller[t].pc = "http"
        /\ caller[u].op = "private_request"
        /\ caller[u].pc = "lock") => auth_mutex_ # <<t>>

----------------------------------------------------------------------------
(* The server thread against the dispatch worker.  The server thread runs
   one handler at a time (server_->run() on server_thread_); the dispatch
   worker runs the book-push callback.  A step is one critical section of
   subscriptions_mutex_ or connections_mutex_, or one send outside them. *)

IoOps == {"handle_subscribe_request", "on_close"}

\* the server thread is in no handler
IoIdle == \A u \in Threads : caller[u].op \notin IoOps

RaceUnchanged ==
    UNCHANGED <<upstreamVars, systemVars, broken, server_, trackerVars, clientVars, sessionVars,
                subscriptions_mutex_, auth_mutex_, open_orders_, positions_>>

RaceAccept(hdl) ==
    /\ IoIdle
    /\ OnOpen(hdl)

\* handle_subscribe_request up to the return of subscribe_client
SubscribeEnter(t, hdl, channel) ==
    /\ IoIdle
    /\ caller[t] = Idle
    /\ hdl \in connections_
    /\ LET tabs2 == subscribe_client(CurrentTabs, hdl, channel)
       IN /\ channel_subscriptions_' = tabs2.chan
          /\ connection_subscriptions_' = tabs2.conn
    /\ caller' = [caller EXCEPT ![t] =
                     [op |-> "handle_subscribe_request", pc |-> "ack", hdl |-> hdl,
                      channel |-> channel,
                      was |-> hdl \in Subscribers(channel_subscriptions_, channel)]]
    /\ issued' = issued \cup {<<hdl, channel>>}
    /\ lastSent' = NoSent
    /\ lastReqs' = <<>>
    /\ last' = [op |-> "subscribe_client", hdl |-> hdl, channel |-> channel]
    /\ UNCHANGED <<connections_, orderbooks_>>
    /\ RaceUnchanged

\* send(hdl, response.dump()) with the "subscribed" acknowledgement
SubscribeAck(t) ==
    /\ caller[t].op = "handle_subscribe_request"
    /\ caller[t].pc = "ack"
    /\ lastSent' = send(NoSent, caller[t].hdl,
                        [type |-> "subscribed", channel |-> caller[t].channel])
    /\ caller' = [caller EXCEPT ![t] =
                     IF HasOrderbookPrefix(caller[t].channel)
                     THEN [caller[t] EXCEPT !.pc = "snapshot"]
                     ELSE Idle]
    /\ lastReqs' = <<>>
    /\ last' = [op |-> "ack", hdl |-> caller[t].hdl, channel |-> caller[t].channel]
    /\ UNCHANGED <<connections_, channel_subscriptions_, connection_subscriptions_,
                   issued, orderbooks_>>
    /\ RaceUnchanged

\* the initial book: get_orderbook, then handle_orderbook_update
SubscribeSnapshot(t, reply) ==
    /\ caller[t].op = "handle_subscribe_request"
    /\ caller[t].pc = "snapshot"
    /\ LET instrument_name == Tail(caller[t].channel)
           got == get_orderbook(orderbooks_, instrument_name, DefaultDepth, reply)
       IN /\ lastSent' = handle_orderbook_update(channel_subscriptions_, NoSent,
                                                 instrument_name, got.ret)
          /\ orderbooks_' = got.cache
          /\ lastReqs' = got.reqs
    /\ caller' = [caller EXCEPT ![t] = Idle]
    /\ last' = [op |-> "snapshot", hdl |-> caller[t].hdl, channel |-> caller[t].channel]
    /\ UNCHANGED <<connections_, channel_subscriptions_, connection_subscriptions_,
                   issued>>
    /\ RaceUnchanged

\* on_close up to the end of the scope of connections_mutex_
CloseErase(t, hdl) ==
    /\ IoIdle
    /\ caller[t] = Idle
    /\ hdl \in connections_
    /\ connections_' = connections_ \ {hdl}
    /\ caller' = [caller EXCEPT ![t] =
                     [op |-> "on_close", pc |-> "unsubscribe_all", hdl |-> hdl]]
    /\ lastSent' = NoSent
    /\ lastReqs' = <<>>
    /\ last' = [op |-> "erase", hdl |-> hdl]
    /\ UNCHANGED <<channel_subscriptions_, connection_subscriptions_, issued,
                   orderbooks_>>
    /\ RaceUnchanged

\* on_close: unsubscribe_all(hdl)
CloseUnsubscribe(t) ==
    /\ caller[t].op = "on_close"
    /\ caller[t].pc = "unsubscribe_all"
    /\ LET tabs2 == unsubscribe_all(CurrentTabs, caller[t].hdl)
       IN /\ channel_subscriptions_' = tabs2.chan
          /\ connection_subscriptions_' = tabs2.conn
    /\ issued' = {e \in issued : e[1] # caller[t].hdl}
    /\ caller' = [caller EXCEPT ![t] = Idle]
    /\ lastSent' = NoSent
    /\ lastReqs' = <<>>
    /\ last' = [op |-> "unsubscribe_all", hdl |-> caller[t].hdl]
    /\ UNCHANGED <<connections_, orderbooks_>>
    /\ RaceUnchanged

\* the dispatch worker runs the book-push callback; sentTo is the set of
\* peers for which broadcast_to_channel called server_->send
DispatchPush(update) ==
    /\ LET r == TradingSystem_handle_orderbook_update(channel_subscriptions_, NoSent,
                                                      orderbooks_, update)
       IN /\ lastSent' = r.out
          /\ orderbooks_' = r.cache
          /\ last' = [op |-> "push_orderbook", update |-> update,
                      sentTo |-> {c \in Conns : r.out[c] # <<>>}]
    /\ lastReqs' = <<>>
    /\ UNCHANGED <<connections_, channel_subscriptions_, connection_subscriptions_,
                   issued, caller>>
    /\ RaceUnchanged

NextRace ==
    \/ \E hdl \in Conns : RaceAccept(hdl)
    \/ \E t \in Threads, hdl \in Conns, channel \in Channels :
          SubscribeEnter(t, hdl, channel)
    \/ \E t \in Threads : SubscribeAck(t)
    \/ \E t \in Threads, reply \in BookReplies : SubscribeSnapshot(t, reply)
    \/ \E t \in Threads, hdl \in Conns : CloseErase(t, hdl)
    \/ \E t \in Threads : CloseUnsubscribe(t)
    \/ \E update \in BookPushes : DispatchPush(update)

SpecRace == Init /\ [][NextRace]_vars

\* C32: a peer that subscribes to channel k is sent no orderbook frame for k
\* before it has been sent the "subscribed" acknowledgement for k: while the
\* acknowledgement of a first subscribe is still to be sent, a push fanned
\* out by the dispatch worker does not reach that peer.
C32_NoBookBeforeAck ==
    \A t \in Threads :
       (/\ caller[t].op = "handle_subscribe_request"
        /\ caller[t].pc = "ack"
        /\ ~caller[t].was
        /\ last.op = "push_orderbook") => caller[t].hdl \notin last.sentTo

\* C34: broadcast_to_channel calls server_->send only for connections that
\* are in the connections set: a fan-out between the two steps of on_close
\* does not reach the connection that is being closed.
C34_NoSendToRemovedConnection ==
    last.op = "push_orderbook" => last.sentTo \subseteq connections_

\* C33: the initial book that on_message sends when peer p subscribes to an
\* orderbook channel goes to p only: no other peer is sent a frame by the
\* handler of p's subscribe.
C33_SnapshotToSubscriberOnly ==
    (/\ last.op = "on_message"
     /\ last.message = Request("subscribe", ChanBook))
       => \A c \in Conns \ {last.hdl} : lastSent[c] = <<>>

\* C37: channel_callbacks_ is accessed under mutual exclusion: neither the
\* handler of a push frame nor the dispatch step of the worker looks a
\* channel up while a subscribe or an unsubscribe is inside its critical
\* section on the map.
C37_NoLookupDuringWrite ==
    (\/ (last.op = "websocket_message_handler" /\ last.method = "subscription")
     \/ (last.op = "process_message_queue" /\ last.step = "dispatch"))
       => writer = <<>>

\* C38: a subscribe that returns false leaves channel_callbacks_ as it was
\* (a subscribe has returned when it no longer holds websocket_mutex_).
C38_FailedSubscribeLeavesCallbacks ==
    [][(last'.op = "subscribe" /\ writer' = <<>> /\ last'.ret = FALSE)
          => channel_callbacks_' = channel_callbacks_]_vars

----------------------------------------------------------------------------
(* ApiClient: the dispatch worker and the destructor.  process_message_queue
   runs on message_thread_ from initialize() on; the destructor clears
   running_, notifies queue_condition_ and joins the thread.  running_ is a
   plain bool that the destructor writes without queue_mutex_: a read by the
   worker sees the value before or after the write, as the interleaving of
   DtorClear with the worker's steps gives it.  The holder of queue_mutex_
   is "worker" or nobody: the handler's push is one step. *)

QueueMutex == "queue_mutex_"

\* no thread is in the destructor
Alive == \A t \in Threads : caller[t].op # "~ApiClient"

ShutdownUnchanged ==
    UNCHANGED <<serverVars, sessionVars, systemVars, broken, server_, trackerVars,
                subscriptions_mutex_, auth_mutex_, websocket_thread_, orderbooks_,
                open_orders_, positions_, channel_callbacks_, writer>>

WorkerStep(step, pc) ==
    /\ worker_pc' = pc
    /\ lastReqs' = <<>>
    /\ last' = [op |-> "process_message_queue", step |-> step, pc |-> pc]
    /\ UNCHANGED <<client_running_, caller, websocket_connected_, received>>
    /\ ShutdownUnchanged

\* initialize(): running_ = true and message_thread_ is started
ClientInitialize ==
    /\ Alive
    /\ worker_pc = "none"
    /\ client_running_' = TRUE
    /\ worker_pc' = "while"
    /\ lastReqs' = <<>>
    /\ last' = [op |-> "initialize", ret |-> TRUE]
    /\ UNCHANGED <<caller, websocket_connected_, received, held, message_queue_, worker,
                   dispatched>>
    /\ ShutdownUnchanged

\* while (running_)
WorkerWhile ==
    /\ worker_pc = "while"
    /\ WorkerStep("while", IF client_running_ THEN "lock" ELSE "done")
    /\ UNCHANGED <<held, message_queue_, worker, dispatched>>

\* std::unique_lock lock(queue_mutex_), also when wait() takes the mutex
\* again after a wake-up
WorkerLock ==
    /\ worker_pc \in {"lock", "woken"}
    /\ held[QueueMutex] = <<>>
    /\ held' = [held EXCEPT ![QueueMutex] = <<"worker">>]
    /\ WorkerStep("lock", "pred")
    /\ UNCHANGED <<message_queue_, worker, dispatched>>

\* wait(lock, pred): the predicate !message_queue_.empty() || !running_
WorkerPred ==
    /\ worker_pc = "pred"
    /\ WorkerStep("pred", IF message_queue_ # <<>> \/ ~client_running_
                          THEN "check" ELSE "wait")
    /\ UNCHANGED <<held, message_queue_, worker, dispatched>>

\* condition_variable::wait(lock): give the mutex up and block
WorkerBlock ==
    /\ worker_pc = "wait"
    /\ held' = [held EXCEPT ![QueueMutex] = <<>>]
    /\ WorkerStep("block", "blocked")
    /\ UNCHANGED <<message_queue_, worker, dispatched>>

\* if (!running_) break; else front() and pop(); the scope of the lock ends
WorkerCheck ==
    /\ worker_pc = "check"
    /\ held' = [held EXCEPT ![QueueMutex] = <<>>]
    /\ IF ~client_running_
       THEN /\ WorkerStep("break", "done")
            /\ UNCHANGED <<message_queue_, worker>>
       ELSE /\ WorkerStep("take", "dispatch")
            /\ worker' = <<front_pop(message_queue_).message>>
            /\ message_queue_' = front_pop(message_queue_).queue
    /\ UNCHANGED dispatched

\* channel_callbacks_.find and the call of the callback
WorkerCallback(found) ==
    /\ worker_pc = "dispatch"
    /\ dispatched' = IF found THEN Append(dispatched, worker[1]) ELSE dispatched
    /\ worker' = <<>>
    /\ WorkerStep("dispatch", "while")
    /\ UNCHANGED <<held, message_queue_>>

\* a blocked wait may return without a notification
SpuriousWakeup ==
    /\ worker_pc = "blocked"
    /\ WorkerStep("spurious", "woken")
    /\ UNCHANGED <<held, message_queue_, worker, dispatched>>

\* queue_condition_.notify_one() and notify_all(): a blocked worker is woken
notify(pc) == IF pc = "blocked" THEN "woken" ELSE pc

\* websocket_message_handler for a push frame, on the channel's thread
WorkerPush(channel, found) ==
    /\ websocket_connected_
    /\ Len(received) < MaxPush
    /\ held[QueueMutex] = <<>>
    /\ received' = Append(received, channel)
    /\ message_queue_' = websocket_message_handler(message_queue_, "subscription", channel,
                                                   Len(received) + 1, found)
    /\ worker_pc' = IF found THEN notify(worker_pc) ELSE worker_pc
    /\ lastReqs' = <<>>
    /\ last' = [op |-> "websocket_message_handler", method |-> "subscription",
                channel |-> channel, found |-> found]
    /\ UNCHANGED <<client_running_, caller, websocket_connected_, held, worker, dispatched>>
    /\ ShutdownUnchanged

DtorStep(t, step, pc) ==
    /\ caller' = [caller EXCEPT ![t] = [op |-> "~ApiClient", pc |-> pc]]
    /\ lastReqs' = <<>>
    /\ last' = [op |-> "~ApiClient", thread |-> t, step |-> step]
    /\ UNCHANGED <<received, held, message_queue_, worker, dispatched>>
    /\ ShutdownUnchanged

\* running_ = false; if (message_thread_.joinable())
DtorClear(t) ==
    /\ Alive
    /\ caller[t] = Idle
    /\ client_running_' = FALSE
    /\ DtorStep(t, "clear", IF worker_pc # "none" THEN "notify" ELSE "disconnect")
    /\ UNCHANGED <<worker_pc, websocket_connected_>>

\* queue_condition_.notify_all()
DtorNotify(t) ==
    /\ caller[t].op = "~ApiClient"
    /\ caller[t].pc = "notify"
    /\ worker_pc' = notify(worker_pc)
    /\ DtorStep(t, "notify_all", "join")
    /\ UNCHANGED <<client_running_, websocket_connected_>>

\* message_thread_.join() returns when process_message_queue has returned
DtorJoin(t) ==
    /\ caller[t].op = "~ApiClient"
    /\ caller[t].pc = "join"
    /\ worker_pc = "done"
    /\ DtorStep(t, "join", "disconnect")
    /\ UNCHANGED <<client_running_, worker_pc, websocket_connected_>>

\* disconnect_websocket(), under websocket_mutex_
DtorDisconnect(t) ==
    /\ caller[t].op = "~ApiClient"
    /\ caller[t].pc = "disconnect"
    /\ writer = <<>>
    /\ websocket_connected_' = FALSE
    /\ DtorStep(t, "disconnect_websocket", "destroyed")
    /\ UNCHANGED <<client_running_, worker_pc>>

WorkerProgress ==
    \/ WorkerWhile
    \/ WorkerLock
    \/ WorkerPred
    \/ WorkerBlock
    \/ WorkerCheck
    \/ \E found \in (IF worker = <<>> THEN {FALSE} ELSE Lookup(worker[1].channel)) :
          WorkerCallback(found)

DtorProgress(t) ==
    \/ DtorNotify(t)
    \/ DtorJoin(t)
    \/ DtorDisconnect(t)

\* the channel the coordinator subscribes to
ShutdownChannels == {"book.BTC-PERPETUAL.100ms"}

NextShutdown ==
    \/ ClientInitialize
    \/ (Alive /\ ConnectWebsocket)
    \/ \E channel \in ShutdownChannels : Alive /\ UpstreamCall("subscribe", channel)
    \/ \E sent \in BOOLEAN : UpstreamReturn(sent)
    \/ \E channel \in ShutdownChannels : \E found \in Lookup(channel) : WorkerPush(channel, found)
    \/ SpuriousWakeup
    \/ WorkerProgress
    \/ \E t \in Threads : DtorClear(t)
    \/ \E t \in Threads : DtorProgress(t)

SpecShutdown == Init /\ [][NextShutdown]_vars

\* the worker and the destructor go on whenever they can; no frame has to
\* arrive and no wait has to return without a notification
SpecShutdownLive ==
    /\ Init
    /\ [][NextShutdown]_vars
    /\ WF_vars(WorkerProgress)
    /\ \A t \in Threads : WF_vars(DtorProgress(t))

\* C35: once the destructor has cleared running_ and notified the condition
\* variable, the worker leaves process_message_queue and the join returns.
C35_JoinReturns ==
    (\E t \in Threads : caller[t].op = "~ApiClient" /\ caller[t].pc = "join")
       ~> (\E t \in Threads :
              caller[t].op = "~ApiClient" /\ caller[t].pc \in {"disconnect", "destroyed"})

----------------------------------------------------------------------------
(* ApiClient::private_request, step by step: the lock_guard on auth_mutex_
   with the two checks made under it, refresh_token(), the private request
   and the end of the scope. *)

RefreshReplies == {AuthError, AuthOk("acc2", "ref2", 1)}

RefreshUnchanged ==
    UNCHANGED <<serverVars, upstreamVars, systemVars, broken, server_, trackerVars,
                clientVars, subscriptions_mutex_, orderbooks_, open_orders_, positions_>>

\* mutant: a lock_guard that does not wait for the holder
lock_guard_noExclusion(holder) == TRUE

\* std::lock_guard<std::mutex> lock(m) returns when nobody holds m
lock_guard(holder) == holder = <<>>

Expired == now >= credentials_.token_expiry

\* authenticate(), which holds auth_mutex_ from its first to its last statement
LockedAuthenticate(authReply) ==
    /\ lock_guard(auth_mutex_)
    /\ Authenticate(authReply)

\* a thread calls private_request; expiredAtCall: the session was
\* authenticated and its token had expired when the call was made
PrivCall(t) ==
    /\ caller[t] = Idle
    /\ caller' = [caller EXCEPT ![t] =
                     [op |-> "private_request", pc |-> "lock",
                      expiredAtCall |-> authenticated_ /\ Expired,
                      refreshed |-> FALSE, checkedAt |-> now]]
    /\ lastReqs' = <<>>
    /\ last' = [op |-> "call", thread |-> t]
    /\ UNCHANGED <<auth_mutex_, sessionVars>>
    /\ RefreshUnchanged

\* the lock_guard, if (!authenticated_) and the comparison with token_expiry
PrivLock(t) ==
    /\ caller[t].op = "private_request"
    /\ caller[t].pc = "lock"
    /\ lock_guard(auth_mutex_)
    /\ auth_mutex_' = <<t>>
    /\ caller' = [caller EXCEPT ![t] =
                     [caller[t] EXCEPT
                         !.pc = IF ~authenticated_ THEN "return"
                                ELSE IF Expired THEN "refresh" ELSE "request",
                         !.checkedAt = now]]
    /\ lastReqs' = <<>>
    /\ last' = [op |-> "lock", thread |-> t]
    /\ UNCHANGED sessionVars
    /\ RefreshUnchanged

\* refresh_token(): the public/auth round trip and what it stores
PrivRefresh(t, authReply) ==
    /\ caller[t].op = "private_request"
    /\ caller[t].pc = "refresh"
    /\ LET r == refresh_token(CurrentSession, authReply)
       IN /\ credentials_' = r.sess.credentials
          /\ authenticated_' = r.sess.authenticated
          /\ lastReqs' = r.reqs
          /\ caller' = [caller EXCEPT ![t] =
                           [caller[t] EXCEPT !.pc = IF r.ok THEN "request" ELSE "return",
                                             !.refreshed = TRUE]]
    /\ last' = [op |-> "refresh_token", thread |-> t]
    /\ UNCHANGED <<auth_mutex_, now>>
    /\ RefreshUnchanged

\* public_request(method, auth_params) with the access token of the session
PrivSend(t, method) ==
    /\ caller[t].op = "private_request"
    /\ caller[t].pc = "request"
    /\ lastReqs' = <<[params |-> [method |-> method],
                      access_token |-> credentials_.access_token]>>
    /\ caller' = [caller EXCEPT ![t] = [caller[t] EXCEPT !.pc = "return"]]
    /\ last' = [op |-> "private_send", thread |-> t]
    /\ UNCHANGED <<auth_mutex_, sessionVars>>
    /\ RefreshUnchanged

\* private_request returns and the scope of the lock_guard is left
PrivUnlock(t) ==
    /\ caller[t].op = "private_request"
    /\ caller[t].pc = "return"
    /\ auth_mutex_' = <<>>
    /\ caller' = [caller EXCEPT ![t] = Idle]
    /\ lastReqs' = <<>>
    /\ last' = [op |-> "unlock", thread |-> t]
    /\ UNCHANGED sessionVars
    /\ RefreshUnchanged

NextRefresh ==
    \/ \E authReply \in LockAuthReplies : LockedAuthenticate(authReply)
    \/ Tick
    \/ \E t \in Threads : PrivCall(t)
    \/ \E t \in Threads : PrivLock(t)
    \/ \E t \in Threads, authReply \in RefreshReplies : PrivRefresh(t, authReply)
    \/ \E t \in Threads, method \in PrivateMethods : PrivSend(t, method)
    \/ \E t \in Threads : PrivUnlock(t)

SpecRefresh == Init /\ [][NextRefresh]_vars

InsideLock == {"refresh", "request", "return"}

----------------------------------------------------------------------------
(* TradingSystem::start with its failures.  connected: connect_websocket
   returns true; listening: WebSocketServer::start returns true. *)

\* returns the return value and the three flags afterwards
TradingSystem_start(running, websocket_connected, server_running, connected, listening) ==
    IF running
    THEN [ret |-> TRUE, running |-> running, websocket_connected |-> websocket_connected,
          server_running |-> server_running]
    ELSE IF ~(websocket_connected \/ connected)
    THEN [ret |-> FALSE, running |-> FALSE, websocket_connected |-> FALSE,
          server_running |-> server_running]
    ELSE IF ~(server_running \/ listening)
    THEN [ret |-> FALSE, running |-> FALSE, websocket_connected |-> TRUE,
          server_running |-> FALSE]
    ELSE [ret |-> TRUE, running |-> TRUE, websocket_connected |-> TRUE,
          server_running |-> TRUE]

\* a start() that returns false
StartFails(connected, listening) ==
    /\ \A t \in Threads : stopper[t] = "idle"
    /\ LET r == TradingSystem_start(running_, websocket_connected_, server_running_,
                                    connected, listening)
       IN /\ ~r.ret
          /\ running_' = r.running
          /\ websocket_connected_' = r.websocket_connected
          /\ server_running_' = r.server_running
          /\ last' = [op |-> "start", ret |-> r.ret]
    /\ lastReqs' = <<>>
    /\ UNCHANGED <<stopper, waiter, starts, disconnects, serverStops>>
    /\ SystemUnchanged

NextStart ==
    \/ NextSystem
    \/ \E connected, listening \in BOOLEAN : StartFails(connected, listening)

SpecStart == Init /\ [][NextStart]_vars

\* C39: after a start() that returned false the upstream channel is not
\* connected.
C39_FailedStartLeavesNoChannel ==
    (last.op = "start" /\ ~last.ret) => ~websocket_connected_

----------------------------------------------------------------------------
(* The order in which the calls take their mutexes.  A call is the list of
   the steps it still has to make: lock and unlock of a mutex, and for
   TradingSystem::stop the close of the upstream connection, the join of its
   thread and the writes of the flags.  main() installs signal_handler for
   SIGINT and SIGTERM; the handler runs on the thread that receives the
   signal, on top of the call that thread is making, and calls stop() when
   is_running() holds. *)

Lock(m) == [do |-> "lock", m |-> m]
Unlock(m) == [do |-> "unlock", m |-> m]
Do(what) == [do |-> what, m |-> ""]

NestOps ==
    {"get_all_metrics", "get_orderbook", "place_order", "broadcast_to_channel",
     "subscribe", "stop"}

\* the steps of a call, in program order
Program(op) ==
    CASE op = "get_all_metrics" ->
           <<Lock("PerformanceMonitor::mutex_"), Lock("LatencyTracker::mutex_"),
             Unlock("LatencyTracker::mutex_"), Unlock("PerformanceMonitor::mutex_")>>
      [] op = "get_orderbook" ->
           <<Lock("orderbooks_mutex_"), Lock("LatencyTracker::mutex_"),
             Unlock("LatencyTracker::mutex_"), Unlock("orderbooks_mutex_")>>
      [] op = "place_order" ->
           <<Lock("orders_mutex_"), Lock("LatencyTracker::mutex_"),
             Unlock("LatencyTracker::mutex_"), Unlock("orders_mutex_")>>
      [] op = "broadcast_to_channel" ->
           <<Lock("LatencyTracker::mutex_"), Unlock("LatencyTracker::mutex_"),
             Lock("subscriptions_mutex_"), Unlock("subscriptions_mutex_"),
             Lock("LatencyTracker::mutex_"), Unlock("LatencyTracker::mutex_")>>
      [] op = "subscribe" ->
           <<Lock("websocket_mutex_"), Unlock("websocket_mutex_")>>
      [] op = "stop" ->
           <<Lock("websocket_mutex_"), Do("close"), Do("join"), Unlock("websocket_mutex_"),
             Do("server_stop"), Do("clear_running")>>

Holder(m) == IF m = "subscriptions_mutex_" THEN subscriptions_mutex_ ELSE held[m]

SetHolder(m, h) ==
    /\ subscriptions_mutex_' = IF m = "subscriptions_mutex_" THEN h ELSE subscriptions_mutex_
    /\ held' = IF m \in Mutexes THEN [held EXCEPT ![m] = h] ELSE held

NestUnchanged ==
    UNCHANGED <<serverVars, sessionVars, broken, server_, trackerVars, auth_mutex_,
                client_running_, worker_pc, orderbooks_, open_orders_, positions_,
                channel_callbacks_, message_queue_, writer, worker, received, dispatched,
                stopper, waiter, starts, disconnects, serverStops>>

Busy(t) == caller[t] # Idle
NextStep(t) == Head(caller[t].todo)

\* the thread has made its step
Advance(t, todo) ==
    caller' = [caller EXCEPT ![t] =
                  IF todo = <<>> THEN Idle ELSE [caller[t] EXCEPT !.todo = todo]]

NestStep(t, step) ==
    /\ lastReqs' = <<>>
    /\ last' = [op |-> "step", thread |-> t, step |-> step]
    /\ NestUnchanged

\* a thread makes a call; subscribe and stop return at once when the system
\* is not running
NestCall(t, op) ==
    /\ ~Busy(t)
    /\ op \in {"subscribe", "stop"} => running_
    /\ caller' = [caller EXCEPT ![t] = [op |-> op, pc |-> "run", todo |-> Program(op)]]
    /\ NestStep(t, "call")
    /\ UNCHANGED <<subscriptions_mutex_, held, websocket_thread_, websocket_connected_,
                   running_, server_running_>>

\* a signal arrives on thread t: the handler calls stop() on top of what the
\* thread is doing
Signal(t) ==
    /\ running_
    /\ \A u \in Threads : Busy(u) => \A i \in DOMAIN caller[u].todo :
                                        caller[u].todo[i].do # "return_from_handler"
    /\ LET todo == Program("stop") \o <<Do("return_from_handler")>>
       IN caller' = [caller EXCEPT ![t] =
                        IF Busy(t) THEN [caller[t] EXCEPT !.todo = todo \o @]
                        ELSE [op |-> "signal_handler", pc |-> "run", todo |-> todo]]
    /\ NestStep(t, "signal")
    /\ UNCHANGED <<subscriptions_mutex_, held, websocket_thread_, websocket_connected_,
                   running_, server_running_>>

NestLock(t) ==
    /\ Busy(t)
    /\ NextStep(t).do = "lock"
    /\ lock_guard(Holder(NextStep(t).m))
    /\ SetHolder(NextStep(t).m, <<t>>)
    /\ Advance(t, Tail(caller[t].todo))
    /\ NestStep(t, "lock")
    /\ UNCHANGED <<websocket_thread_, websocket_connected_, running_, server_running_>>

NestUnlock(t) ==
    /\ Busy(t)
    /\ NextStep(t).do = "unlock"
    /\ SetHolder(NextStep(t).m, <<>>)
    /\ Advance(t, Tail(caller[t].todo))
    /\ NestStep(t, "unlock")
    /\ UNCHANGED <<websocket_thread_, websocket_connected_, running_, server_running_>>

\* disconnect_websocket: if (!websocket_connected_) return; else close
NestClose(t) ==
    /\ Busy(t)
    /\ NextStep(t).do = "close"
    /\ IF websocket_connected_
       THEN /\ websocket_thread_' = "closing"
            /\ Advance(t, Tail(caller[t].todo))
       ELSE /\ websocket_thread_' = websocket_thread_
            /\ Advance(t, Tail(Tail(caller[t].todo)))
    /\ NestStep(t, "close")
    /\ UNCHANGED <<subscriptions_mutex_, held, websocket_connected_, running_,
                   server_running_>>

\* websocket_client_->run() returns once the connection is closed
IoExit ==
    /\ websocket_thread_ = "closing"
    /\ websocket_thread_' = "exited"
    /\ lastReqs' = <<>>
    /\ last' = [op |-> "run", ret |-> TRUE]
    /\ UNCHANGED <<caller, subscriptions_mutex_, held, websocket_connected_, running_,
                   server_running_>>
    /\ NestUnchanged

\* websocket_thread_.join(); websocket_connected_ = false
NestJoin(t) ==
    /\ Busy(t)
    /\ NextStep(t).do = "join"
    /\ websocket_thread_ = "exited"
    /\ websocket_thread_' = "none"
    /\ websocket_connected_' = FALSE
    /\ Advance(t, Tail(caller[t].todo))
    /\ NestStep(t, "join")
    /\ UNCHANGED <<subscriptions_mutex_, held, running_, server_running_>>

\* websocket_server_->stop(), running_ = false, and the return of the handler
NestFlag(t) ==
    /\ Busy(t)
    /\ NextStep(t).do \in {"server_stop", "clear_running", "return_from_handler"}
    /\ server_running_' = IF NextStep(t).do = "server_stop" THEN FALSE ELSE server_running_
    /\ running_' = IF NextStep(t).do = "clear_running" THEN FALSE ELSE running_
    /\ Advance(t, Tail(caller[t].todo))
    /\ NestStep(t, NextStep(t).do)
    /\ UNCHANGED <<subscriptions_mutex_, held, websocket_thread_, websocket_connected_>>

NextNesting ==
    \/ Start
    \/ \E t \in Threads, op \in NestOps : NestCall(t, op)
    \/ \E t \in Threads : Signal(t)
    \/ \E t \in Threads : NestLock(t)
    \/ \E t \in Threads : NestUnlock(t)
    \/ \E t \in Threads : NestClose(t)
    \/ IoExit
    \/ \E t \in Threads : NestJoin(t)
    \/ \E t \in Threads : NestFlag(t)

SpecNesting == Init /\ [][NextNesting]_vars

\* t waits for a mutex that u holds
WaitsFor(t, u) ==
    /\ Busy(t)
    /\ NextStep(t).do = "lock"
    /\ Holder(NextStep(t).m) = <<u>>

\* C40: no reachable state is a deadlock: no thread waits for a mutex whose
\* holder waits, directly or through other threads, for a mutex the first
\* thread holds, and none waits for a mutex it holds itself.
C40_NoWaitCycle ==
    /\ \A t \in Threads : ~WaitsFor(t, t)
    /\ \A t, u \in Threads : ~(WaitsFor(t, u) /\ WaitsFor(u, t))

====
